---- MODULE Spec2Model ----
(***************************************************************************)
(* p2pchat: the peer registry and discovery receive path, the message      *)
(* history, and the TCP connection manager, as state machines.             *)
(*                                                                         *)
(* One module, three groups of variables.  Each specification drives one   *)
(* group and leaves the others at their initial value:                     *)
(*   SpecHistory   MessageHistory (AddMessage, Clear, cleanup)             *)
(*   SpecRegistry  DiscoveryService.handleDiscoveryMessage + PeerRegistry  *)
(*   SpecConn      ConnectionManager of two participants over a network    *)
(*   SpecRetry     retryFailedConnections on one entry, inputs enumerated  *)
(*   FairMesh      SpecConn without injected socket faults, with fairness  *)
(***************************************************************************)
EXTENDS Integers, Sequences, FiniteSets, TLC

(***************************************************************************)
(* Bounds of the model.                                                    *)
(***************************************************************************)
NumMsgIds == 3
MaxTs == 2
MaxCap == 2
MaxSockets == 2
MaxFaults == 1
MaxRetry == 2
MaxRetryInput == 8
MaxBuilt == 2
MaxWritten == 1
MaxAir == 2
MaxAccepts == 1
MaxLines == 2

(***************************************************************************)
(* Program constants.                                                      *)
(***************************************************************************)
DefaultMaxMessages == 1000
StaleAfter == 10
OfflineAfter == 30
MaxEnvelopeAge == 30
ServiceMaxMessages == 1000
MaxBackoffShift == 6
SendChanCap == 100
InboundCap == 100
MaxUsernameLen == 20

VARIABLES
    \* MessageHistory (src/unnamed/part_008)
    messages,      \* h.messages: sequence of envelopes
    messageIDs,    \* h.messageIDs: the set of keys mapped to true
    maxMessages,   \* h.maxMessages
    lastAdd,       \* the last history call: operation, argument, result and the
                   \* number of envelopes its cleanup dropped
    \* PeerRegistry and DiscoveryService, one per participant
    peers,         \* pr.peers: per participant, peer id -> record or NoPeer
    joinCalls,     \* per participant, the ids onPeerJoin was invoked for
    leaveCalls,    \* per participant, the ids onPeerLeave was invoked for
    selfHeard,     \* per participant, whether an envelope carrying its own
                   \* peer id has been received
    lastReg,       \* the last step of the registry owner's discovery tasks:
                   \* the envelope received, the callbacks invoked
    leaver,        \* the peer whose departure is looked at: its place in
                   \* Stop, and its discovery envelopes the owner has not
                   \* received yet, in the order sent
    \* ConnectionManager, one per participant, and the TCP network
    conns,         \* cm.connections: per participant, peer -> PeerConnection
    sockets,       \* the TCP connections ever established, in dial order
    listening,     \* per participant, whether its TCP listener accepts
    ctp,           \* per participant, the receive task's place in ConnectToPeer
    dialTasks,     \* running attemptConnection calls
    readers,       \* running handlePeerMessages tasks
    writers,       \* running handlePeerSending tasks
    dialed,        \* every dial ever started: <<dialer, peer, trigger>>
    faults,        \* number of network faults injected so far
    woken,         \* the participants whose retry ticker has fired
    \* ChatService of one participant
    connections,   \* its cm.connections: peer -> State, SendChan and whether
                   \* the entry's context is cancelled; State "none": no entry
    incomingMessages, \* cs.incomingMessages, the inbound stream
    username,      \* cs.username, a sequence of characters
    messageSequence,  \* cs.messageSequence
    written,       \* per peer, the envelopes its write task took off SendChan
    lastCall,      \* the last service call: operation, arguments and result
    building,      \* per calling task, the envelope it has built and not yet
                   \* handed on
    link,          \* per peer, the socket of its entry, the entry's read and
                   \* write task, the lines the peer wrote that are not yet
                   \* read, and the envelopes given to the message handler
    handshakes,    \* per accepted socket, the place of its
                   \* handleIncomingConnection task and the key its entry
                   \* was stored under
    shutdown,      \* the place of ChatService.Stop, and whether a task has
                   \* panicked
    \* The lock of one participant's PeerRegistry
    mu,            \* pr.mu: the task holding Lock, the tasks holding RLock
    calls,         \* per task, its registry calls in progress, innermost last
    handlerOp      \* the registry operation the installed handlers call

histVars == <<messages, messageIDs, maxMessages, lastAdd>>

regVars == <<peers, joinCalls, leaveCalls, selfHeard, lastReg, leaver>>

connVars == <<conns, sockets, listening, ctp, dialTasks, readers, writers,
              dialed, faults, woken>>

chatVars == <<connections, incomingMessages, username, messageSequence,
              written, lastCall, building, link, handshakes, shutdown>>

lockVars == <<mu, calls, handlerOp>>

vars == <<messages, messageIDs, maxMessages, lastAdd,
          peers, joinCalls, leaveCalls, selfHeard, lastReg, leaver,
          conns, sockets, listening, ctp, dialTasks, readers, writers,
          dialed, faults, woken,
          connections, incomingMessages, username, messageSequence,
          written, lastCall, building, link, handshakes, shutdown,
          mu, calls, handlerOp>>

(***************************************************************************)
(* Helpers.                                                                *)
(***************************************************************************)
Min(a, b) == IF a < b THEN a ELSE b

Range(s) == {s[i] : i \in 1..Len(s)}

(***************************************************************************)
(* Chat envelopes as the history sees them: id, timestamp, type.           *)
(***************************************************************************)
MsgTypes == {"chat", "heartbeat"}

NilMsg == [id |-> 0, ts |-> 0, type |-> "nil"]

Msgs == [id : 1..NumMsgIds, ts : 1..MaxTs, type : MsgTypes]

(***************************************************************************)
(* MessageHistory                                                          *)
(***************************************************************************)
\* NewMessageHistory: a capacity <= 0 becomes the default.
NewMessageHistory(n) == IF n <= 0 THEN DefaultMaxMessages ELSE n

\* The orders of the envelopes s[i], i \in idx, in which no envelope precedes
\* one with a strictly smaller timestamp.
RECURSIVE SortedOrders(_, _)
SortedOrders(s, idx) ==
    IF idx = {}
    THEN {<<>>}
    ELSE LET firsts == {i \in idx : \A j \in idx : ~(s[j].ts < s[i].ts)}
         IN UNION {{<<s[i]>> \o rest : rest \in SortedOrders(s, idx \ {i})} :
                      i \in firsts}

\* sort.Slice with less = Timestamp.Before: the result is a permutation of s
\* in which no envelope precedes one with a strictly smaller timestamp.
\* sort.Slice is not stable, so every such permutation is a possible result.
SortSliceKeepsOrder(s) == {s}

SortSlice(s) == SortedOrders(s, 1..Len(s))

cleanupKeepsIDs(msgs, ids, max) ==
    IF Len(msgs) <= max
    THEN [messages |-> msgs, ids |-> ids, dropped |-> 0]
    ELSE [messages |-> SubSeq(msgs, Len(msgs) - max + 1, Len(msgs)), ids |-> ids,
          dropped |-> Len(msgs) - max]

cleanupDropsNewest(msgs, ids, max) ==
    IF Len(msgs) <= max
    THEN [messages |-> msgs, ids |-> ids, dropped |-> 0]
    ELSE [messages |-> SubSeq(msgs, 1, max),
          ids |-> {msgs[i].id : i \in 1..max},
          dropped |-> Len(msgs) - max]

\* cleanup: drop the first len - max envelopes and delete their ids.
cleanup(msgs, ids, max) ==
    IF Len(msgs) <= max
    THEN [messages |-> msgs, ids |-> ids, dropped |-> 0]
    ELSE LET excessMessages == Len(msgs) - max
         IN [messages |-> SubSeq(msgs, excessMessages + 1, Len(msgs)),
             ids |-> ids \ {msgs[i].id : i \in 1..excessMessages},
             dropped |-> excessMessages]

AddMessageKeepsHeartbeats(msg) ==
    /\ UNCHANGED maxMessages
    /\ IF msg = NilMsg \/ msg.id \in messageIDs
       THEN /\ UNCHANGED <<messages, messageIDs>>
            /\ lastAdd' = [op |-> "add", msg |-> msg, ret |-> FALSE, dropped |-> 0]
       ELSE \E sorted \in SortSlice(Append(messages, msg)) :
                LET r == cleanup(sorted, messageIDs \cup {msg.id}, maxMessages)
                IN /\ messages' = r.messages
                   /\ messageIDs' = r.ids
                   /\ lastAdd' = [op |-> "add", msg |-> msg, ret |-> TRUE,
                                   dropped |-> r.dropped]

\* AddMessage(msg): nil, duplicate id and heartbeat are refused (in that
\* order); otherwise append, record the id, sort, cleanup.
AddMessage(msg) ==
    /\ UNCHANGED maxMessages
    /\ IF msg = NilMsg \/ msg.id \in messageIDs \/ msg.type = "heartbeat"
       THEN /\ UNCHANGED <<messages, messageIDs>>
            /\ lastAdd' = [op |-> "add", msg |-> msg, ret |-> FALSE, dropped |-> 0]
       ELSE \E sorted \in SortSlice(Append(messages, msg)) :
                LET r == cleanup(sorted, messageIDs \cup {msg.id}, maxMessages)
                IN /\ messages' = r.messages
                   /\ messageIDs' = r.ids
                   /\ lastAdd' = [op |-> "add", msg |-> msg, ret |-> TRUE,
                                   dropped |-> r.dropped]

\* Clear: empty slice, fresh id map.
Clear ==
    /\ messages' = <<>>
    /\ messageIDs' = {}
    /\ lastAdd' = [op |-> "clear", msg |-> NilMsg, ret |-> FALSE, dropped |-> 0]
    /\ UNCHANGED maxMessages

\* GetMessages(types): a copy of the whole slice when no type is given,
\* otherwise the envelopes of the given types, in slice order.
GetMessages(types) ==
    IF types = {}
    THEN messages
    ELSE SelectSeq(messages, LAMBDA m : m.type \in types)

\* GetRecentMessages(limit): the whole slice when limit <= 0 or limit >= the
\* length, otherwise the last limit envelopes.
GetRecentMessages(limit) ==
    LET total == Len(messages)
    IN IF limit <= 0 \/ limit >= total
       THEN messages
       ELSE SubSeq(messages, total - limit + 1, total)

HistAdd ==
    /\ \E msg \in Msgs \cup {NilMsg} : AddMessage(msg)
    /\ UNCHANGED <<regVars, connVars, lockVars, chatVars>>

HistClear == Clear /\ UNCHANGED <<regVars, connVars, lockVars, chatVars>>

InitHistory ==
    /\ messages = <<>>
    /\ messageIDs = {}
    /\ maxMessages \in {NewMessageHistory(n) : n \in 0..MaxCap}
    /\ lastAdd = [op |-> "none", msg |-> NilMsg, ret |-> FALSE, dropped |-> 0]

\* The history NewChatService creates.
InitServiceHistory ==
    /\ messages = <<>>
    /\ messageIDs = {}
    /\ maxMessages = NewMessageHistory(ServiceMaxMessages)
    /\ lastAdd = [op |-> "none", msg |-> NilMsg, ret |-> FALSE, dropped |-> 0]

(***************************************************************************)
(* Participants and peer ids.                                              *)
(***************************************************************************)
\* The two running participants, and the ids an envelope may carry (a third
\* id belongs to no running participant).
Procs == {1, 2}

IdSet == {1, 2, 3}

\* peerID := fmt.Sprintf("%s_%d", username, time.Now().Unix()%1000), as the
\* bytes of the string: "al_10", "al_9", "bo_1".
PeerId(i) ==
    CASE i = 1 -> <<97, 108, 95, 49, 48>>
      [] i = 2 -> <<97, 108, 95, 57>>
      [] OTHER -> <<98, 111, 95, 49>>

\* Go's s < t on strings: bytewise lexicographic order.
RECURSIVE StringLess(_, _)
StringLess(s, t) ==
    IF t = <<>> THEN FALSE
    ELSE IF s = <<>> THEN TRUE
    ELSE IF Head(s) # Head(t) THEN Head(s) < Head(t)
    ELSE StringLess(Tail(s), Tail(t))

(***************************************************************************)
(* Peer and PeerRegistry                                                   *)
(***************************************************************************)
NoPeer == [status |-> "none", seen |-> 0, ip |-> 0, port |-> 0]

\* Ages (now - LastSeen, in seconds) are kept up to the first value past the
\* offline threshold.
SeenCap == OfflineAfter + 1

CheckTimeoutInclusive(elapsed) ==
    IF elapsed >= OfflineAfter THEN "offline"
    ELSE IF elapsed >= StaleAfter THEN "stale"
    ELSE "online"

\* Peer.CheckTimeout with the registry's thresholds.
CheckTimeout(elapsed) ==
    IF elapsed > OfflineAfter THEN "offline"
    ELSE IF elapsed > StaleAfter THEN "stale"
    ELSE "online"

AddOrUpdatePeerOverwrites(reg, msg) ==
    [reg |-> [reg EXCEPT ![msg.peer] = [status |-> "online", seen |-> 0,
                                        ip |-> msg.ip, port |-> msg.port]],
     joined |-> IF reg[msg.peer] = NoPeer THEN {msg.peer} ELSE {},
     left |-> {}]

\* PeerRegistry.AddOrUpdatePeer: refresh a known peer (UpdateLastSeen), or
\* insert a new one and invoke onPeerJoin for it.
AddOrUpdatePeer(reg, msg) ==
    LET id == msg.peer
    IN IF reg[id] # NoPeer
       THEN [reg |-> [reg EXCEPT ![id].seen = 0, ![id].status = "online"],
             joined |-> {}, left |-> {}]
       ELSE [reg |-> [reg EXCEPT ![id] = [status |-> "online", seen |-> 0,
                                          ip |-> msg.ip, port |-> msg.port]],
             joined |-> {id}, left |-> {}]

RemovePeerAlwaysNotifies(reg, id) ==
    [reg |-> [reg EXCEPT ![id] = NoPeer], joined |-> {}, left |-> {id}]

\* PeerRegistry.RemovePeer: delete if present and invoke onPeerLeave.
RemovePeer(reg, id) ==
    IF reg[id] # NoPeer
    THEN [reg |-> [reg EXCEPT ![id] = NoPeer], joined |-> {}, left |-> {id}]
    ELSE [reg |-> reg, joined |-> {}, left |-> {}]

\* PeerRegistry.CleanupStalePeers: recompute every status; records that are
\* offline get onPeerLeave and are deleted.
CleanupStalePeers(reg) ==
    LET checked == [i \in IdSet |->
                       IF reg[i] = NoPeer THEN NoPeer
                       ELSE [reg[i] EXCEPT !.status = CheckTimeout(reg[i].seen)]]
        toRemove == {i \in IdSet : checked[i].status = "offline"}
    IN [reg |-> [i \in IdSet |-> IF i \in toRemove THEN NoPeer ELSE checked[i]],
        joined |-> {},
        left |-> toRemove]

\* PeerRegistry.GetAllPeers: a copy of every record, with its key.
GetAllPeers(reg) == {<<i, reg[i]>> : i \in {j \in IdSet : reg[j] # NoPeer}}

\* PeerRegistry.GetOnlinePeers: copies of the records that are alive
\* (Peer.IsAlive: online or stale).
GetOnlinePeers(reg) ==
    {s \in GetAllPeers(reg) : s[2].status = "online" \/ s[2].status = "stale"}

(***************************************************************************)
(* DiscoveryService                                                        *)
(***************************************************************************)
DiscTypes == {"announce", "ping", "pong", "leave", "bogus"}

\* A received discovery envelope: type, peer id, the TCP port it names, the
\* age of its timestamp at receipt (time.Since(m.Timestamp), in seconds), and
\* the source IP of the datagram it came in.
EnvAges == {0, MaxEnvelopeAge, MaxEnvelopeAge + 1}

Ips == {1, 2}

Ports == {1, 2}

AddressedEnvelopes ==
    [type : DiscTypes, peer : IdSet, age : EnvAges, ip : Ips, port : Ports]

\* The envelopes of participants that keep one address.
Envelopes == {env \in AddressedEnvelopes : env.ip = 1 /\ env.port = 1}

\* NewAnnounceMessage of participant i as its peers receive it.
Announce(i) == [type |-> "announce", peer |-> i, age |-> 0, ip |-> 1, port |-> 1]

NoEnvelope == [type |-> "none", peer |-> 0, age |-> 0, ip |-> 0, port |-> 0]

Leave(i) == [type |-> "leave", peer |-> i, age |-> 0, ip |-> 1, port |-> 1]

\* A peer that runs: its Stop has not been called and nothing it sent is
\* under way.
LeaverUp == [pc |-> "running", air |-> <<>>]

\* What lastReg keeps of one step.
RegStep(op, env, r) == [op |-> op, env |-> env, joined |-> r.joined, left |-> r.left]

IsRecentAlways(env, maxAge) == TRUE

\* DiscoveryMessage.IsRecent
IsRecent(env, maxAge) == env.age <= maxAge

handleDiscoveryMessageNoSelfCheck(local, reg, env) ==
    IF ~IsRecent(env, MaxEnvelopeAge)
    THEN [reg |-> reg, joined |-> {}, left |-> {}]
    ELSE CASE env.type \in {"announce", "ping", "pong"} -> AddOrUpdatePeer(reg, env)
           [] env.type = "leave" -> RemovePeer(reg, env.peer)
           [] OTHER -> [reg |-> reg, joined |-> {}, left |-> {}]

\* DiscoveryService.handleDiscoveryMessage
handleDiscoveryMessage(local, reg, env) ==
    IF PeerId(env.peer) = PeerId(local)
    THEN [reg |-> reg, joined |-> {}, left |-> {}]
    ELSE IF ~IsRecent(env, MaxEnvelopeAge)
    THEN [reg |-> reg, joined |-> {}, left |-> {}]
    ELSE CASE env.type \in {"announce", "ping", "pong"} -> AddOrUpdatePeer(reg, env)
           [] env.type = "leave" -> RemovePeer(reg, env.peer)
           [] OTHER -> [reg |-> reg, joined |-> {}, left |-> {}]

\* The registry side of a call: the new map and the callbacks it invoked.
ApplyRegistry(p, r) ==
    /\ peers' = [peers EXCEPT ![p] = r.reg]
    /\ joinCalls' = [joinCalls EXCEPT ![p] = @ \cup r.joined]
    /\ leaveCalls' = [leaveCalls EXCEPT ![p] = @ \cup r.left]

\* receiveLoop: one envelope received by participant p.
ReceiveDiscovery(p, env) ==
    /\ ApplyRegistry(p, handleDiscoveryMessage(p, peers[p], env))
    /\ selfHeard' = [selfHeard EXCEPT ![p] = @ \/ PeerId(env.peer) = PeerId(p)]

\* cleanupLoop: one tick of the cleanup ticker at participant p.
Sweep(p) ==
    /\ ApplyRegistry(p, CleanupStalePeers(peers[p]))
    /\ UNCHANGED selfHeard

\* One second passes at participant p without an envelope.
SeenTick(p) ==
    /\ \E i \in IdSet : peers[p][i] # NoPeer /\ peers[p][i].seen < SeenCap
    /\ peers' = [peers EXCEPT ![p] =
                    [i \in IdSet |-> IF @[i] = NoPeer THEN NoPeer
                                     ELSE [@[i] EXCEPT !.seen = Min(@ + 1, SeenCap)]]]
    /\ UNCHANGED <<joinCalls, leaveCalls, selfHeard, lastReg, leaver>>

InitRegistry ==
    /\ peers = [p \in Procs |-> [i \in IdSet |-> NoPeer]]
    /\ joinCalls = [p \in Procs |-> {}]
    /\ leaveCalls = [p \in Procs |-> {}]
    /\ selfHeard = [p \in Procs |-> FALSE]
    /\ lastReg = RegStep("none", NoEnvelope, [joined |-> {}, left |-> {}])
    /\ leaver = LeaverUp

(***************************************************************************)
(* ConnectionManager                                                       *)
(***************************************************************************)
\* ConnectionState.String()
ConnStates == {"disconnected", "connecting", "connected", "failed"}

\* 1 << uint(n)
RECURSIVE Pow2(_)
Pow2(n) == IF n = 0 THEN 1 ELSE 2 * Pow2(n - 1)

\* Seconds since LastAttempt are kept up to the first value past the largest
\* backoff; an entry whose LastAttempt is the zero time has that value.
SinceCap == Pow2(MaxBackoffShift) + 1

\* No entry under the key.  allocs counts the PeerConnection objects that
\* were ever stored under the key.
NoConn ==
    [allocs |-> 0, State |-> "disconnected", Conn |-> 0, RetryCount |-> 0,
     since |-> SinceCap, cancelled |-> FALSE]

\* &PeerConnection{...} stored under a key that held `old`.
NewPeerConnection(old, state, conn) ==
    [allocs |-> old.allocs + 1, State |-> state, Conn |-> conn, RetryCount |-> 0,
     since |-> SinceCap, cancelled |-> FALSE]

\* net.Conn.Close() by participant p on socket c.
CloseEnd(ss, c, p) ==
    [ss EXCEPT ![c] = IF @.from = p THEN [@ EXCEPT !.fromOpen = FALSE]
                                    ELSE [@ EXCEPT !.toOpen = FALSE]]

\* Whether p's end of socket c is open.
OpenAt(ss, c, p) == IF ss[c].from = p THEN ss[c].fromOpen ELSE ss[c].toOpen

\* Whether the other end of socket c is open.
RemoteOpen(ss, c, p) == IF ss[c].from = p THEN ss[c].toOpen ELSE ss[c].fromOpen

\* A read or write by p on socket c fails: closed locally, closed by the
\* remote (EOF), or the network failed (reset, deadline).
IOFails(ss, c, p) == ~OpenAt(ss, c, p) \/ ~RemoteOpen(ss, c, p) \/ ss[c].fault

\* ConnectToPeer, line 227: cm.localPeerID >= p.ID, wait for the peer to dial.
WaitsForPeerReversed(local, remote) == ~StringLess(PeerId(remote), PeerId(local))

WaitsForPeer(local, remote) == ~StringLess(PeerId(local), PeerId(remote))

\* retryFailedConnections, line 335: cm.localPeerID < peerConn.PeerID.
RetryInitiatesNever(local, remote) == StringLess(PeerId(remote), PeerId(local))

RetryInitiates(local, remote) == StringLess(PeerId(local), PeerId(remote))

\* retryFailedConnections, line 324: 1 << min(RetryCount, 6) seconds.
BackoffDelayUncapped(retryCount) == Pow2(retryCount)

BackoffDelay(retryCount) == Pow2(Min(retryCount, MaxBackoffShift))

\* retryFailedConnections, lines 321-329: the entries collected for a retry.
RetryDue(e) ==
    /\ e.allocs > 0
    /\ e.State = "failed"
    /\ e.since > BackoffDelay(e.RetryCount)

\* disconnectPeer: failed, cancel the entry's context, close and forget the
\* entry's current socket.  The entry's write tasks wait on the context and
\* return with the cancel.
disconnectPeer(p, q, cs, ss, ws) ==
    [conns |-> [cs EXCEPT ![p][q] = [@ EXCEPT !.State = "failed",
                                              !.cancelled = TRUE,
                                              !.Conn = 0]],
     sockets |-> IF cs[p][q].Conn # 0 THEN CloseEnd(ss, cs[p][q].Conn, p) ELSE ss,
     writers |-> {w \in ws : ~(w.p = p /\ w.q = q)}]

\* attemptConnection, lines 253-254.
AttemptBegins(e) == [e EXCEPT !.State = "connecting", !.since = 0]

\* attemptConnection, line 262: the dial failed.
DialFailed(e) == [e EXCEPT !.State = "failed"]

\* attemptConnection, line 263.
FailureCounted(e) == [e EXCEPT !.RetryCount = @ + 1]

\* attemptConnection, lines 269-270: the dial returned socket c.
DialSucceeded(e, c) == [e EXCEPT !.Conn = c, !.State = "connected"]

\* attemptConnection, line 272.
CountReset(e) == [e EXCEPT !.RetryCount = 0]

\* handleIncomingConnection, lines 177-202: the entry after an identified
\* inbound socket c.
IncomingEntryAlwaysNew(e, c) == NewPeerConnection(e, "connected", c)

IncomingEntry(e, c) ==
    IF e.allocs > 0
    THEN [e EXCEPT !.Conn = c, !.State = "connected"]
    ELSE NewPeerConnection(e, "connected", c)

IdleCtp == [pc |-> "idle", q |-> 0, existingNil |-> FALSE]

\* The discovery receive task of p is not inside a join callback.
ReceiveIdle(p) ==
    /\ ctp[p].pc = "idle"
    /\ ~\E t \in dialTasks : t.p = p /\ t.via = "join"

\* ConnectToPeer, lines 216-230, run by the join callback for peer q.
ConnectToPeerCheck(p, q) ==
    LET existing == conns[p][q]
    IN IF existing.allocs > 0 /\ existing.State \in {"connected", "connecting"}
       THEN ctp' = ctp
       ELSE IF WaitsForPeer(p, q)
       THEN ctp' = ctp
       ELSE ctp' = [ctp EXCEPT ![p] = [pc |-> "lock", q |-> q,
                                       existingNil |-> existing.allocs = 0]]

\* receiveLoop at participant p: an announce of running participant q.  A new
\* peer invokes the join callback, which calls ConnectToPeer.
Discover(p, q) ==
    /\ p # q
    /\ ReceiveIdle(p)
    /\ LET env == Announce(q)
           r == handleDiscoveryMessage(p, peers[p], env)
       IN /\ ApplyRegistry(p, r)
          /\ IF q \in r.joined THEN ConnectToPeerCheck(p, q) ELSE ctp' = ctp
    /\ UNCHANGED <<selfHeard, lastReg, leaver, conns, sockets, listening, dialTasks, readers,
                   writers, dialed, faults, woken>>

\* cleanupLoop at p, after the network lost every envelope of q for longer
\* than the offline threshold.  The sweep takes the registry lock, which a
\* running join callback holds.
ConnSweep(p, q) ==
    /\ p # q
    /\ ReceiveIdle(p)
    /\ faults < MaxFaults
    /\ peers[p][q] # NoPeer
    /\ ApplyRegistry(p, CleanupStalePeers([peers[p] EXCEPT ![q].seen = SeenCap]))
    /\ faults' = faults + 1
    /\ UNCHANGED <<selfHeard, lastReg, leaver, conns, sockets, listening, ctp, dialTasks, readers,
                   writers, dialed, woken>>

\* ConnectToPeer, lines 233-248, and attemptConnection up to the dial.
ConnectToPeerDial(p) ==
    /\ ctp[p].pc = "lock"
    /\ LET q == ctp[p].q
           entry == IF ctp[p].existingNil
                    THEN NewPeerConnection(conns[p][q], "disconnected", 0)
                    ELSE conns[p][q]
       IN /\ conns' = [conns EXCEPT ![p][q] = AttemptBegins(entry)]
          /\ dialTasks' = dialTasks \cup
                 {[p |-> p, q |-> q, pc |-> "dial", sock |-> 0, via |-> "join"]}
          /\ dialed' = dialed \cup {<<p, q, "join">>}
    /\ ctp' = [ctp EXCEPT ![p] = IdleCtp]
    /\ UNCHANGED <<regVars, sockets, listening, readers, writers, faults, woken>>

\* retryFailedConnections at p: the attempts it starts.
RetryStarts(p) ==
    LET failedPeers == {q \in Procs : RetryDue(conns[p][q])}
    IN {[p |-> p, q |-> q, pc |-> "start", sock |-> 0, via |-> "retry"] :
           q \in {f \in failedPeers : RetryInitiates(p, f)}}

\* connectionRetryLoop, started by Start: one tick of the retry ticker at p.
RetryWake(p) ==
    /\ listening[p]
    /\ dialTasks' = dialTasks \cup RetryStarts(p)
    /\ woken' = woken \cup {p}
    /\ UNCHANGED <<regVars, conns, sockets, listening, ctp, readers, writers,
                   dialed, faults>>

\* go attemptConnection(peerConn): the task reaches the dial.
AttemptStart(t) ==
    /\ t.pc = "start"
    /\ conns' = [conns EXCEPT ![t.p][t.q] = AttemptBegins(@)]
    /\ dialTasks' = (dialTasks \ {t}) \cup {[t EXCEPT !.pc = "dial"]}
    /\ dialed' = dialed \cup {<<t.p, t.q, t.via>>}
    /\ UNCHANGED <<regVars, sockets, listening, ctp, readers, writers, faults, woken>>

\* net.DialTimeout succeeds: the peer's listener takes the connection.
DialOk(t) ==
    /\ t.pc = "dial"
    /\ listening[t.q]
    /\ Len(sockets) < MaxSockets
    /\ LET c == Len(sockets) + 1
       IN /\ sockets' = Append(sockets,
                 [from |-> t.p, to |-> t.q, fromOpen |-> TRUE, toOpen |-> TRUE,
                  fault |-> FALSE, stage |-> "backlog", ident |-> FALSE])
          /\ conns' = [conns EXCEPT ![t.p][t.q] = DialSucceeded(@, c)]
          /\ dialTasks' = (dialTasks \ {t}) \cup {[t EXCEPT !.pc = "flush", !.sock = c]}
    /\ UNCHANGED <<regVars, listening, ctp, readers, writers, dialed, faults, woken>>

\* net.DialTimeout fails: nobody listens at the peer's address.  Line 262.
DialFail(t) ==
    /\ t.pc = "dial"
    /\ ~listening[t.q]
    /\ conns[t.p][t.q].RetryCount
           + Cardinality({u \in dialTasks : u.p = t.p /\ u.q = t.q /\ u.pc = "count"})
         < MaxRetry
    /\ conns' = [conns EXCEPT ![t.p][t.q] = DialFailed(@)]
    /\ dialTasks' = (dialTasks \ {t}) \cup {[t EXCEPT !.pc = "count"]}
    /\ UNCHANGED <<regVars, sockets, listening, ctp, readers, writers, dialed,
                   faults, woken>>

\* attemptConnection, line 263, after a failed dial; the entry's fields are
\* written without the lock, one at a time.
CountFailure(t) ==
    /\ t.pc = "count"
    /\ conns' = [conns EXCEPT ![t.p][t.q] = FailureCounted(@)]
    /\ dialTasks' = dialTasks \ {t}
    /\ UNCHANGED <<regVars, sockets, listening, ctp, readers, writers, dialed,
                   faults, woken>>

\* attemptConnection, lines 272-300: the count is reset, the identification
\* line is written and
\* the read and write tasks are started, or the write fails.
FlushIdent(t) ==
    /\ t.pc = "flush"
    /\ IF IOFails(sockets, t.sock, t.p)
       THEN /\ conns' = [conns EXCEPT ![t.p][t.q] = [CountReset(@) EXCEPT !.State = "failed"]]
            /\ sockets' = CloseEnd(sockets, t.sock, t.p)
            /\ UNCHANGED <<readers, writers>>
       ELSE /\ sockets' = [sockets EXCEPT ![t.sock].ident = TRUE]
            /\ readers' = readers \cup {[p |-> t.p, q |-> t.q, sock |-> t.sock, pc |-> "top"]}
            /\ writers' = writers \cup {[p |-> t.p, q |-> t.q, sock |-> t.sock]}
            /\ conns' = [conns EXCEPT ![t.p][t.q] = CountReset(@)]
    /\ dialTasks' = dialTasks \ {t}
    /\ UNCHANGED <<regVars, listening, ctp, dialed, faults, woken>>

\* acceptConnections and handleIncomingConnection: socket c is accepted, its
\* identification line is read, the entry of its sender is created or updated
\* and the read and write tasks are started.
HandleIncoming(c) ==
    /\ sockets[c].stage = "backlog"
    /\ listening[sockets[c].to]
    /\ sockets[c].ident
    /\ LET p == sockets[c].to
           sender == sockets[c].from
       IN /\ conns' = [conns EXCEPT ![p][sender] = IncomingEntry(@, c)]
          /\ readers' = readers \cup {[p |-> p, q |-> sender, sock |-> c, pc |-> "top"]}
          /\ writers' = writers \cup {[p |-> p, q |-> sender, sock |-> c]}
    /\ sockets' = [sockets EXCEPT ![c].stage = "registered"]
    /\ UNCHANGED <<regVars, listening, ctp, dialTasks, dialed, faults, woken>>

\* acceptConnections and handleIncomingConnection: socket c is accepted and
\* reading its identification line fails; the socket is closed.
RejectIncoming(c) ==
    /\ sockets[c].stage = "backlog"
    /\ listening[sockets[c].to]
    /\ ~sockets[c].ident
    /\ IOFails(sockets, c, sockets[c].to)
    /\ sockets' = [CloseEnd(sockets, c, sockets[c].to) EXCEPT ![c].stage = "rejected"]
    /\ UNCHANGED <<regVars, conns, listening, ctp, dialTasks, readers, writers,
                   dialed, faults, woken>>

\* handlePeerMessages, top of the loop: return if the entry's context is
\* done (the deferred disconnectPeer runs), else block in the read.
ReaderTop(r) ==
    /\ r.pc = "top"
    /\ IF conns[r.p][r.q].cancelled
       THEN LET d == disconnectPeer(r.p, r.q, conns, sockets, writers)
            IN /\ conns' = d.conns
               /\ sockets' = d.sockets
               /\ writers' = d.writers
               /\ readers' = readers \ {r}
       ELSE /\ readers' = (readers \ {r}) \cup {[r EXCEPT !.pc = "read"]}
            /\ UNCHANGED <<conns, sockets, writers>>
    /\ UNCHANGED <<regVars, listening, ctp, dialTasks, dialed, faults, woken>>

\* handlePeerMessages: the read returns an error; the task returns and the
\* deferred disconnectPeer runs.
ReaderError(r) ==
    /\ r.pc = "read"
    /\ IOFails(sockets, r.sock, r.p)
    /\ LET d == disconnectPeer(r.p, r.q, conns, sockets, writers)
       IN /\ conns' = d.conns
          /\ sockets' = d.sockets
          /\ writers' = d.writers
    /\ readers' = readers \ {r}
    /\ UNCHANGED <<regVars, listening, ctp, dialTasks, dialed, faults, woken>>

\* handlePeerSending, started on an entry whose context is already done: the
\* task returns.
WriterExit(w) ==
    /\ conns[w.p][w.q].cancelled
    /\ writers' = writers \ {w}
    /\ UNCHANGED <<regVars, conns, sockets, listening, ctp, dialTasks, readers,
                   dialed, faults, woken>>

\* ConnectionManager.Start at participant p: the listener accepts and the
\* retry loop runs.
ListenerUp(p) ==
    /\ ~listening[p]
    /\ listening' = [listening EXCEPT ![p] = TRUE]
    /\ UNCHANGED <<regVars, conns, sockets, ctp, dialTasks, readers, writers,
                   dialed, faults, woken>>

\* The network fails socket c: reads and writes on it return errors.
Fault(c) ==
    /\ faults < MaxFaults
    /\ ~sockets[c].fault
    /\ sockets[c].fromOpen \/ sockets[c].toOpen
    /\ sockets' = [sockets EXCEPT ![c].fault = TRUE]
    /\ faults' = faults + 1
    /\ UNCHANGED <<regVars, conns, listening, ctp, dialTasks, readers, writers, dialed, woken>>

\* Every task is blocked: in a dial, in a write or read on a socket, or
\* waiting on a channel.  The steps between two blocking points take far less
\* than a second.
AllBlocked ==
    /\ \A p \in Procs : ctp[p].pc = "idle"
    /\ \A t \in dialTasks : t.pc \in {"dial", "flush"}
    /\ \A r \in readers : r.pc = "read"
    /\ \A w \in writers : ~conns[w.p][w.q].cancelled

\* One second passes while some failed entry waits for its backoff.
ConnTick ==
    /\ AllBlocked
    /\ \E p, q \in Procs :
           /\ conns[p][q].allocs > 0
           /\ conns[p][q].State = "failed"
           /\ ~RetryDue(conns[p][q])
    /\ conns' = [p \in Procs |-> [q \in Procs |->
                    IF conns[p][q].allocs > 0
                    THEN [conns[p][q] EXCEPT !.since = Min(@ + 1, SinceCap)]
                    ELSE conns[p][q]]]
    /\ UNCHANGED <<regVars, sockets, listening, ctp, dialTasks, readers, writers,
                   dialed, faults, woken>>

InitConn ==
    /\ conns = [p \in Procs |-> [q \in Procs |-> NoConn]]
    /\ sockets = <<>>
    /\ listening = [p \in Procs |-> FALSE]
    /\ ctp = [p \in Procs |-> IdleCtp]
    /\ dialTasks = {}
    /\ readers = {}
    /\ writers = {}
    /\ dialed = {}
    /\ faults = 0
    /\ woken = {}

(***************************************************************************)
(* The registry of one participant with its lock pr.mu, the tasks that     *)
(* call it, and handlers that call the registry back.                      *)
(***************************************************************************)
\* The participant whose registry is looked at on its own.
RegistryOwner == CHOOSE p \in Procs : \A q \in Procs : p <= q

\* receiveLoop, cleanupLoop, and a front-end task that takes snapshots.
RegTasks == {"receive", "cleanup", "front"}

\* The operations that take pr.mu.Lock and those that take pr.mu.RLock.
WriteOps == {"AddOrUpdatePeer", "RemovePeer", "CleanupStalePeers"}

ReadOps == {"GetAllPeers", "GetOnlinePeers", "GetPeerCount"}

\* What a handler given to SetEventHandlers does with the registry: nothing
\* (it returns), or one call of a registry operation for the peer it was
\* invoked for.
HandlerOps == {"return"} \cup ReadOps \cup {"AddOrUpdatePeer", "RemovePeer"}

\* The calls each task makes.
TaskOps(t) ==
    CASE t = "receive" -> {"AddOrUpdatePeer", "RemovePeer"}
      [] t = "cleanup" -> {"CleanupStalePeers"}
      [] OTHER -> ReadOps

\* sync.RWMutex: Lock needs no holder at all, RLock no writer; a task that
\* holds the mutex gets no second hold.
MuFree(op) ==
    IF op \in WriteOps
    THEN mu.writer = "none" /\ mu.readers = {}
    ELSE mu.writer = "none"

\* The operation op for peer id on the registry map, with the callbacks it
\* invokes.  A sweep finds peer id silent for longer than the offline
\* threshold.
RegistryOp(reg, op, id) ==
    CASE op = "AddOrUpdatePeer" -> AddOrUpdatePeer(reg, Announce(id))
      [] op = "RemovePeer" -> RemovePeer(reg, id)
      [] op = "CleanupStalePeers" ->
            CleanupStalePeers(IF reg[id] = NoPeer THEN reg
                              ELSE [reg EXCEPT ![id].seen = SeenCap])
      [] OTHER -> [reg |-> reg, joined |-> {}, left |-> {}]

\* A task enters a registry operation: it asks for the lock.
RegCall(t, op, id) ==
    /\ calls[t] = <<>>
    /\ op \in TaskOps(t)
    /\ calls' = [calls EXCEPT ![t] = <<[op |-> op, id |-> id, at |-> "lock", cb |-> {}]>>]
    /\ UNCHANGED <<histVars, regVars, connVars, chatVars, mu, handlerOp>>

\* The task gets the lock and runs the operation up to its callbacks.
RegLock(t) ==
    /\ calls[t] # <<>>
    /\ LET n == Len(calls[t])
           f == calls[t][n]
           r == RegistryOp(peers[RegistryOwner], f.op, f.id)
       IN /\ f.at = "lock"
          /\ MuFree(f.op)
          /\ mu' = IF f.op \in WriteOps
                   THEN [mu EXCEPT !.writer = t]
                   ELSE [mu EXCEPT !.readers = @ \cup {t}]
          /\ ApplyRegistry(RegistryOwner, r)
          /\ calls' = [calls EXCEPT ![t][n] =
                          [f EXCEPT !.at = "held", !.cb = r.joined \cup r.left]]
    /\ UNCHANGED <<histVars, connVars, chatVars, selfHeard, lastReg, leaver,
                   handlerOp>>

\* onPeerJoin / onPeerLeave, invoked inline with the lock held: the handler
\* returns, or calls the registry.
RegCallback(t) ==
    /\ calls[t] # <<>>
    /\ LET n == Len(calls[t])
           f == calls[t][n]
       IN /\ f.at = "held"
          /\ \E id \in f.cb :
                LET rest == [calls[t] EXCEPT ![n].cb = @ \ {id}]
                IN calls' = [calls EXCEPT ![t] =
                                IF handlerOp = "return"
                                THEN rest
                                ELSE Append(rest, [op |-> handlerOp, id |-> id,
                                                   at |-> "lock", cb |-> {}])]
    /\ UNCHANGED <<histVars, regVars, connVars, chatVars, mu, handlerOp>>

\* The deferred Unlock / RUnlock, after the last callback has returned.
RegUnlock(t) ==
    /\ calls[t] # <<>>
    /\ LET n == Len(calls[t])
           f == calls[t][n]
       IN /\ f.at = "held"
          /\ f.cb = {}
          /\ mu' = IF f.op \in WriteOps
                   THEN [mu EXCEPT !.writer = "none"]
                   ELSE [mu EXCEPT !.readers = @ \ {t}]
          /\ calls' = [calls EXCEPT ![t] = SubSeq(@, 1, n - 1)]
    /\ UNCHANGED <<histVars, regVars, connVars, chatVars, handlerOp>>

\* NewPeerRegistry, before SetEventHandlers: free lock, no handler work.
InitLockFields ==
    /\ mu = [writer |-> "none", readers |-> {}]
    /\ calls = [t \in RegTasks |-> <<>>]
    /\ handlerOp = "return"

(***************************************************************************)
(* ChatService of one participant, with the entries of its connection      *)
(* table as Broadcast and SendToPeer see them.                             *)
(***************************************************************************)
\* The peer ids the table may hold an entry for.
ChatPeers == {2, 3}

NoEntry == [State |-> "none", SendChan |-> <<>>, cancelled |-> FALSE]

\* The chat envelopes peers send: id, timestamp, type and sequence number.
\* The peers build MaxBuilt chat envelopes and as many heartbeats between
\* them, each with the timestamp of its making; each may arrive more than
\* once and in any order.
PeerEnvelopes ==
    {[id |-> i, ts |-> Min(i, MaxTs), type |-> t, sequence |-> i] :
        i \in 1..MaxBuilt, t \in MsgTypes}

\* generateMessageID: 8 random bytes in hex; the id of the envelope built
\* with sequence number seq, distinct from every other id.
generateMessageID(seq) == NumMsgIds + seq

\* NewChatMessage, NewJoinMessage, NewLeaveMessage, NewHeartbeatMessage.
NewMessage(type, ts, seq) ==
    [id |-> generateMessageID(seq), ts |-> ts, type |-> type, sequence |-> seq]

\* time.Now() of the local clock, which no timestamp in the model exceeds.
Now == MaxTs

\* The heartbeats with sequence numbers 1..n, as SendHeartbeat builds them.
Heartbeats(n) == [i \in 1..n |-> NewMessage("heartbeat", 1, i)]

TrySendGivesUp(ch, cap, msg) == ch

\* select { case ch <- msg: default: }: a send that gives up when the
\* channel's buffer is full.
TrySend(ch, cap, msg) == IF Len(ch) < cap THEN Append(ch, msg) ELSE ch

SendToPeerIgnoresState(cn, peerID, msg) ==
    IF Len(cn[peerID].SendChan) < SendChanCap
    THEN [connections |-> [cn EXCEPT ![peerID].SendChan = Append(@, msg)],
          err |-> "nil"]
    ELSE [connections |-> cn, err |-> "QueueFull"]

\* SendToPeer: an error when there is no entry or its State is not
\* connected; otherwise a send on SendChan that gives up when it is full.
SendToPeer(cn, peerID, msg) ==
    IF cn[peerID].State = "none" \/ cn[peerID].State # "connected"
    THEN [connections |-> cn, err |-> "NotConnected"]
    ELSE IF Len(cn[peerID].SendChan) < SendChanCap
         THEN [connections |-> [cn EXCEPT ![peerID].SendChan = Append(@, msg)],
               err |-> "nil"]
         ELSE [connections |-> cn, err |-> "QueueFull"]

BroadcastStopsAtFull(cn, msg) ==
    [p \in ChatPeers |->
        IF /\ cn[p].State = "connected"
           /\ \A q \in ChatPeers :
                 (q <= p /\ cn[q].State = "connected")
                 => Len(cn[q].SendChan) < SendChanCap
        THEN [cn[p] EXCEPT !.SendChan = Append(@, msg)]
        ELSE cn[p]]

\* Broadcast: for every entry whose State is connected, a send on its
\* SendChan that gives up when it is full.
Broadcast(cn, msg) ==
    [p \in ChatPeers |->
        IF cn[p].State = "connected"
        THEN [cn[p] EXCEPT !.SendChan = TrySend(@, SendChanCap, msg)]
        ELSE cn[p]]

\* The socket and the two tasks of an entry.  rdFail: reads on the socket
\* return an error (EOF, reset, read deadline); wrFail: writes do (reset,
\* write deadline).
NoLink ==
    [sock |-> "closed", rdFail |-> FALSE, wrFail |-> FALSE, reader |-> "done",
     writer |-> "done", wire |-> <<>>, peerSent |-> 0, handed |-> <<>>]

\* No socket has been accepted.
NoHandshakes == [a \in 1..MaxAccepts |-> [stage |-> "none", key |-> <<>>]]

\* ChatService.Stop has not been called.
Running == [pc |-> "running", panic |-> FALSE]

\* A connected entry has an open socket and both tasks running.
LinkOf(entry) ==
    IF entry.State = "connected"
    THEN [NoLink EXCEPT !.sock = "up", !.reader = "run", !.writer = "run"]
    ELSE NoLink

\* A read, or a write, on the entry's socket returns an error: the socket
\* was closed locally, or the network or the peer failed it.
ReadFails(l) == l.sock = "closed" \/ l.rdFail

WriteFails(l) == l.sock = "closed" \/ l.wrFail

ReceiveNewest(ch) == [msg |-> ch[Len(ch)], rest |-> SubSeq(ch, 1, Len(ch) - 1)]

\* msg := <-peerConn.SendChan: the oldest envelope in the channel's buffer.
Receive(ch) == [msg |-> Head(ch), rest |-> Tail(ch)]

\* The tasks that call into the service at the same time: the front-end
\* (SendMessage, ChangeUsername), the discovery receive task (the join
\* callback) and the task that runs Stop.
SeqTasks == {"front", "receive", "stop"}

nextSequenceStale(v) == v

\* nextSequence: atomic.AddUint64(&cs.messageSequence, 1), one indivisible
\* step that returns the new value (its wrap at 2^64 lies beyond every
\* count looked at here).
nextSequence(v) == v + 1

\* The service may build another envelope (a cap on messageSequence).
MayBuild == messageSequence < SendChanCap - 1 + MaxBuilt

Call(op, peer, msg, arg, err) ==
    [op |-> op, peer |-> peer, msg |-> msg, arg |-> arg, err |-> err]

\* cm.SendToPeer with a join envelope, as the join callback calls it.
SendJoinTo(p) ==
    /\ MayBuild
    /\ LET joinMsg == NewMessage("join", Now, nextSequence(messageSequence))
              r == SendToPeer(connections, p, joinMsg)
          IN /\ messageSequence' = nextSequence(messageSequence)
             /\ connections' = r.connections
             /\ lastCall' = Call("SendToPeer", p, joinMsg, <<>>, r.err)
    /\ UNCHANGED <<histVars, regVars, connVars, lockVars, incomingMessages, username, written, building, link,
                   handshakes, shutdown>>

\* SendMessage after its check of the text: build the chat envelope,
\* Broadcast, AddMessage, and a send on the inbound stream that gives up when
\* it is full.
SendMessageBody(content) ==
    /\ MayBuild
    /\ LET msg == NewMessage("chat", Now, nextSequence(messageSequence))
          IN /\ messageSequence' = nextSequence(messageSequence)
             /\ connections' = Broadcast(connections, msg)
             /\ AddMessage(msg)
             /\ incomingMessages' = TrySend(incomingMessages, InboundCap, msg)
             /\ lastCall' = Call("SendMessage", 0, msg, content, "nil")
    /\ UNCHANGED <<regVars, connVars, lockVars, username, written, building, link,
                   handshakes, shutdown>>

SendMessageUnchecked(content) == SendMessageBody(content)

\* SendMessage(content): empty text is an error and nothing else happens.
SendMessage(content) ==
    IF content = <<>>
    THEN /\ lastCall' = Call("SendMessage", 0, NilMsg, content, "EmptyMessage")
         /\ UNCHANGED <<histVars, regVars, connVars, lockVars, connections,
                        incomingMessages, username, messageSequence, written, building, link,
                        handshakes, shutdown>>
    ELSE SendMessageBody(content)

\* ChangeUsername(newUsername): an empty name and one of more than 20 bytes
\* are errors; otherwise set the name, build the notice (a chat envelope
\* retyped join), Broadcast it and AddMessage it.
ChangeUsername(newUsername) ==
    IF newUsername = <<>> \/ Len(newUsername) > MaxUsernameLen
    THEN /\ lastCall' = Call("ChangeUsername", 0, NilMsg, newUsername,
                             IF newUsername = <<>> THEN "Empty" ELSE "TooLong")
         /\ UNCHANGED <<histVars, regVars, connVars, lockVars, connections,
                        incomingMessages, username, messageSequence, written, building, link,
                        handshakes, shutdown>>
    ELSE /\ MayBuild
         /\ LET changeMsg == NewMessage("join", Now, nextSequence(messageSequence))
               IN /\ username' = newUsername
                  /\ messageSequence' = nextSequence(messageSequence)
                  /\ connections' = Broadcast(connections, changeMsg)
                  /\ AddMessage(changeMsg)
                  /\ lastCall' = Call("ChangeUsername", 0, changeMsg, newUsername, "nil")
         /\ UNCHANGED <<regVars, connVars, lockVars, incomingMessages, written, building, link,
                   handshakes, shutdown>>

\* NotifyPeerJoin, NotifyPeerLeave, SendHeartbeat: build the envelope and
\* Broadcast it.
Notify(type) ==
    /\ MayBuild
    /\ LET msg == NewMessage(type, Now, nextSequence(messageSequence))
          IN /\ messageSequence' = nextSequence(messageSequence)
             /\ connections' = Broadcast(connections, msg)
             /\ lastCall' = Call("Notify", 0, msg, <<>>, "nil")
    /\ UNCHANGED <<histVars, regVars, connVars, lockVars, incomingMessages, username, written, building, link,
                   handshakes, shutdown>>

\* ChatService.ClearMessageHistory: MessageHistory.Clear.
ClearMessageHistory ==
    /\ Clear
    /\ lastCall' = Call("ClearMessageHistory", 0, NilMsg, <<>>, "nil")
    /\ UNCHANGED <<regVars, connVars, lockVars, connections, incomingMessages,
                   username, messageSequence, written, building, link,
                   handshakes, shutdown>>

OnMessagePublishesAll(msg, from) ==
    /\ connections[from].State # "none"
    /\ AddMessage(msg)
    /\ incomingMessages' = TrySend(incomingMessages, InboundCap, msg)
    /\ lastCall' = Call("OnMessage", 0, msg, <<>>, "nil")
    /\ UNCHANGED <<regVars, connVars, lockVars, connections, username, messageSequence, written, building, link,
                   handshakes, shutdown>>

\* The message handler setupIntegration installs: AddMessage, and when it
\* returned true a send on the inbound stream that gives up when it is full.
OnMessage(msg, from) ==
    /\ connections[from].State # "none"
    /\ AddMessage(msg)
    /\ incomingMessages' = IF lastAdd'.ret
                           THEN TrySend(incomingMessages, InboundCap, msg)
                           ELSE incomingMessages
    /\ lastCall' = Call("OnMessage", 0, msg, <<>>, "nil")
    /\ UNCHANGED <<regVars, connVars, lockVars, connections, username, messageSequence, written, building, link,
                   handshakes, shutdown>>

\* handlePeerSending: while the entry's context is not cancelled, take the
\* next envelope off SendChan and write it.
WriterTake(p) ==
    /\ connections[p].State # "none"
    /\ link[p].writer = "run"
    /\ ~connections[p].cancelled
    /\ connections[p].SendChan # <<>>
    /\ ~WriteFails(link[p])
    /\ written' = [written EXCEPT ![p] = Append(@, Receive(connections[p].SendChan).msg)]
    /\ connections' = [connections EXCEPT ![p].SendChan = Receive(@).rest]
    /\ UNCHANGED <<histVars, regVars, connVars, lockVars, incomingMessages, username,
                   messageSequence, lastCall, building, link,
                   handshakes, shutdown>>

\* What each task builds: the front-end chat text, a username notice and
\* heartbeats, the join callback a join, Stop a leave.
TaskKinds(t) ==
    CASE t = "front" -> {"chat", "username", "heartbeat"}
      [] t = "receive" -> {"join"}
      [] OTHER -> {"leave"}

\* Task t, inside SendMessage, ChangeUsername, SendHeartbeat, the join
\* callback or NotifyPeerLeave, calls nextSequence and builds its envelope.
BuildEnvelope(t, kind) ==
    /\ building[t] = NilMsg
    /\ MayBuild
    /\ messageSequence' = nextSequence(messageSequence)
    /\ building' = [building EXCEPT ![t] =
                       NewMessage(IF kind = "username" THEN "join" ELSE kind,
                                  Now, messageSequence')]
    /\ username' = IF kind = "username" THEN <<"b", "o">> ELSE username
    /\ lastCall' = Call("nextSequence", 0, building'[t], <<>>, "nil")
    /\ UNCHANGED <<histVars, regVars, connVars, lockVars, connections,
                   incomingMessages, written, link, handshakes, shutdown>>

\* The rest of the call: SendToPeer for the join callback; Broadcast for the
\* others, with AddMessage for chat text and username notices and the send
\* on the inbound stream for chat text.
HandOn(t) ==
    /\ building[t] # NilMsg
    /\ building' = [building EXCEPT ![t] = NilMsg]
    /\ LET msg == building[t]
       IN IF t = "receive"
          THEN /\ \E p \in ChatPeers :
                     LET r == SendToPeer(connections, p, msg)
                     IN /\ connections' = r.connections
                        /\ lastCall' = Call("SendToPeer", p, msg, <<>>, r.err)
               /\ UNCHANGED <<histVars, incomingMessages, handshakes, shutdown>>
          ELSE /\ connections' = Broadcast(connections, msg)
               /\ lastCall' = Call("Broadcast", 0, msg, <<>>, "nil")
               /\ IF t = "front" /\ msg.type # "heartbeat"
                  THEN AddMessage(msg)
                  ELSE UNCHANGED histVars
               /\ incomingMessages' = IF msg.type = "chat"
                                      THEN TrySend(incomingMessages, InboundCap, msg)
                                      ELSE incomingMessages
    /\ UNCHANGED <<regVars, connVars, lockVars, username, messageSequence, written, link,
                   handshakes, shutdown>>

\* The required keys of a chat envelope's JSON object.
Fields == {"id", "sender_id", "type"}

\* Message.ToJSON and the line feed: the line that carries msg from sender.
\* A string is the sequence of its parts, "" the empty sequence.
ToJSON(msg, sender) ==
    [json |-> TRUE, keys |-> Fields, id |-> <<msg.id>>, sender_id |-> <<sender>>,
     type |-> <<msg.type>>, ts |-> msg.ts, sequence |-> msg.sequence]

\* Lines no service writes: text that is not JSON, and objects that lack a
\* required key or give it the empty string.
Defects == {"garbage", "no_id", "empty_id", "no_sender", "empty_sender",
            "no_type", "empty_type"}

Damaged(line, defect) ==
    CASE defect = "garbage" -> [line EXCEPT !.json = FALSE]
      [] defect = "no_id" -> [line EXCEPT !.keys = @ \ {"id"}]
      [] defect = "empty_id" -> [line EXCEPT !.id = <<>>]
      [] defect = "no_sender" -> [line EXCEPT !.keys = @ \ {"sender_id"}]
      [] defect = "empty_sender" -> [line EXCEPT !.sender_id = <<>>]
      [] defect = "no_type" -> [line EXCEPT !.keys = @ \ {"type"}]
      [] OTHER -> [line EXCEPT !.type = <<>>]

\* json.Unmarshal into a zero Message: a key that is absent leaves its
\* field the empty string.
Unmarshal(line) ==
    [ID |-> IF "id" \in line.keys THEN line.id ELSE <<>>,
     SenderID |-> IF "sender_id" \in line.keys THEN line.sender_id ELSE <<>>,
     Type |-> IF "type" \in line.keys THEN line.type ELSE <<>>,
     ts |-> line.ts, sequence |-> line.sequence]

FromJSONNoTypeCheck(line) ==
    LET m == Unmarshal(line)
    IN IF ~line.json THEN [err |-> "unmarshal", msg |-> NilMsg]
       ELSE IF m.ID = <<>> THEN [err |-> "missing ID", msg |-> NilMsg]
       ELSE IF m.SenderID = <<>> THEN [err |-> "missing sender_id", msg |-> NilMsg]
       ELSE [err |-> "nil",
             msg |-> [id |-> m.ID[1], ts |-> m.ts,
                      type |-> IF m.Type = <<>> THEN "" ELSE m.Type[1],
                      sequence |-> m.sequence]]

\* FromJSON: Unmarshal, then ID, SenderID and Type must not be empty.
FromJSON(line) ==
    LET m == Unmarshal(line)
    IN IF ~line.json THEN [err |-> "unmarshal", msg |-> NilMsg]
       ELSE IF m.ID = <<>> THEN [err |-> "missing ID", msg |-> NilMsg]
       ELSE IF m.SenderID = <<>> THEN [err |-> "missing sender_id", msg |-> NilMsg]
       ELSE IF m.Type = <<>> THEN [err |-> "missing type", msg |-> NilMsg]
       ELSE [err |-> "nil",
             msg |-> [id |-> m.ID[1], ts |-> m.ts, type |-> m.Type[1],
                      sequence |-> m.sequence]]

\* The k-th envelope peer p builds, and the lines that may stand in its
\* place on the socket.
PeerEnvelope(p, k, type) ==
    [id |-> (p - 2) * MaxLines + k, ts |-> Min(k, MaxTs), type |-> type,
     sequence |-> k]

PeerLines(p, k) ==
    {ToJSON(PeerEnvelope(p, k, type), p) : type \in MsgTypes}
    \cup {Damaged(ToJSON(PeerEnvelope(p, k, "chat"), p), d) : d \in Defects}

\* The peer whose traffic is looked at; the other peers are silent.
LinkPeer == CHOOSE p \in ChatPeers : \A q \in ChatPeers : p <= q

\* Peer p writes its next line to the socket.
PeerWrites(p) ==
    /\ link[p].sock = "up" /\ ~link[p].rdFail
    /\ link[p].peerSent < MaxLines
    /\ \E line \in PeerLines(p, link[p].peerSent + 1) :
          link' = [link EXCEPT ![p].wire = Append(@, line), ![p].peerSent = @ + 1]
    /\ UNCHANGED <<histVars, regVars, connVars, lockVars, connections,
                   incomingMessages, username, messageSequence, written,
                   lastCall, building, handshakes, shutdown>>

\* The network or the peer fails the socket: "reset" fails reads and writes,
\* "silent" lets the read deadline pass, "stalled" the write deadline.
LinkFault(p, kind) ==
    /\ link[p].sock = "up"
    /\ ~link[p].rdFail /\ ~link[p].wrFail
    /\ link' = [link EXCEPT ![p].rdFail = kind \in {"reset", "silent"},
                            ![p].wrFail = kind \in {"reset", "stalled"}]
    /\ UNCHANGED <<histVars, regVars, connVars, lockVars, connections,
                   incomingMessages, username, messageSequence, written,
                   lastCall, building, handshakes, shutdown>>

\* handlePeerMessages: ReadString returns a line.  A line FromJSON refuses is
\* logged and the loop continues; otherwise the message handler gets the
\* envelope (AddMessage, and when that returned true a send on the inbound
\* stream that gives up when it is full).
ReadLine(p) ==
    /\ link[p].reader = "run"
    /\ link[p].sock = "up"
    /\ link[p].wire # <<>>
    /\ LET line == Head(link[p].wire)
           r == FromJSON(line)
       IN /\ lastCall' = Call("ReadLine", p, r.msg, line, r.err)
          /\ IF r.err # "nil"
             THEN /\ link' = [link EXCEPT ![p].wire = Tail(@)]
                  /\ UNCHANGED <<histVars, incomingMessages, handshakes, shutdown>>
             ELSE /\ link' = [link EXCEPT ![p].wire = Tail(@),
                                          ![p].handed = Append(@, r.msg)]
                  /\ AddMessage(r.msg)
                  /\ incomingMessages' =
                        IF lastAdd'.ret
                        THEN TrySend(incomingMessages, InboundCap, r.msg)
                        ELSE incomingMessages
    /\ UNCHANGED <<regVars, connVars, lockVars, connections, username,
                   messageSequence, written, building, handshakes, shutdown>>

ReadReturnsLeavesEntry(p) ==
    /\ link[p].reader = "run"
    /\ connections[p].cancelled \/ ReadFails(link[p])
    /\ link' = [link EXCEPT ![p].reader = "done"]
    /\ lastCall' = Call("disconnectPeer", p, NilMsg, <<>>, "nil")
    /\ UNCHANGED <<histVars, regVars, connVars, lockVars, connections,
                   incomingMessages, username, messageSequence, written, building,
                   handshakes, shutdown>>

\* handlePeerMessages returns: the entry's context is done at the top of the
\* loop, or ReadString returned an error.  The deferred disconnectPeer sets
\* the entry failed, cancels its context and closes its socket.
ReadReturns(p) ==
    /\ link[p].reader = "run"
    /\ connections[p].cancelled \/ ReadFails(link[p])
    /\ connections' = [connections EXCEPT ![p].State = "failed",
                                          ![p].cancelled = TRUE]
    /\ link' = [link EXCEPT ![p].reader = "done", ![p].sock = "closed"]
    /\ lastCall' = Call("disconnectPeer", p, NilMsg, <<>>, "nil")
    /\ UNCHANGED <<histVars, regVars, connVars, lockVars, incomingMessages,
                   username, messageSequence, written, building,
                   handshakes, shutdown>>

\* handlePeerSending: WriteString or Flush of the envelope taken off SendChan
\* returns an error; the task logs it and returns.
WriteReturns(p) ==
    /\ link[p].writer = "run"
    /\ ~connections[p].cancelled
    /\ connections[p].SendChan # <<>>
    /\ WriteFails(link[p])
    /\ connections' = [connections EXCEPT ![p].SendChan = Receive(@).rest]
    /\ link' = [link EXCEPT ![p].writer = "done"]
    /\ lastCall' = Call("WriteError", p, Receive(connections[p].SendChan).msg,
                        <<>>, "write")
    /\ UNCHANGED <<histVars, regVars, connVars, lockVars, incomingMessages,
                   username, messageSequence, written, building,
                   handshakes, shutdown>>

\* handlePeerSending: the entry's context is done; the task returns.
WriterCancelled(p) ==
    /\ link[p].writer = "run"
    /\ connections[p].cancelled
    /\ link' = [link EXCEPT ![p].writer = "done"]
    /\ UNCHANGED <<histVars, regVars, connVars, lockVars, connections,
                   incomingMessages, username, messageSequence, written,
                   lastCall, building, handshakes, shutdown>>

\* handlePeerSending: the entry's context is done and SendChan holds an
\* envelope, so both cases of the select are ready and the runtime may take
\* the receive.  disconnectPeer stores nil in peerConn.Conn without the lock
\* and the write task reads the field without it: the task sees nil, and
\* the call of SetWriteDeadline on the nil handle panics, or it sees the
\* closed socket, and the write fails and the task returns.
handlePeerSendingAfterCancel(p, seen) ==
    /\ link[p].writer = "run"
    /\ connections[p].cancelled
    /\ link[p].reader = "done"
    /\ connections[p].SendChan # <<>>
    /\ connections' = [connections EXCEPT ![p].SendChan = Receive(@).rest]
    /\ link' = [link EXCEPT ![p].writer = "done"]
    /\ lastCall' = Call("SetWriteDeadline", p, Receive(connections[p].SendChan).msg,
                        <<>>, IF seen = "nil" THEN "nil pointer" ELSE "write")
    /\ shutdown' = [shutdown EXCEPT !.panic = @ \/ seen = "nil"]
    /\ UNCHANGED <<histVars, regVars, connVars, lockVars, incomingMessages,
                   username, messageSequence, written, building, handshakes>>

\* The inbound handshake.  The first line of an accepted socket: the join
\* envelope attemptConnection writes, or a line no service writes.  The
\* sender is a peer none of whose tasks is running here (a second socket
\* of a connected peer is another matter).
IdentLines ==
    UNION {{ToJSON(PeerEnvelope(q, 1, "join"), q)}
              \cup {Damaged(ToJSON(PeerEnvelope(q, 1, "join"), q), d) : d \in Defects} :
           q \in {r \in ChatPeers : link[r].reader = "done" /\ link[r].writer = "done"}}

\* The context of the connection manager is done: ChatService.Stop has
\* reached cm.cancel().
CmDone == shutdown.pc \notin {"running", "notified"}

\* acceptConnections: Accept returns a socket and handleIncomingConnection
\* is started on it.
acceptConnections(a) ==
    /\ ~CmDone
    /\ handshakes[a].stage = "none"
    /\ handshakes' = [handshakes EXCEPT ![a].stage = "reading"]
    /\ UNCHANGED <<histVars, regVars, connVars, lockVars, connections,
                   incomingMessages, username, messageSequence, written,
                   lastCall, building, link, shutdown>>

\* handleIncomingConnection: ReadString returns the first line.  A line
\* json.Unmarshal refuses closes the socket; otherwise the entry under the
\* line's sender_id is updated, or created with a context derived from the
\* manager's, and the read and write tasks are started on it.
handleIncomingConnection(a, line) ==
    /\ handshakes[a].stage = "reading"
    /\ IF ~line.json
       THEN /\ handshakes' = [handshakes EXCEPT ![a].stage = "closed"]
            /\ lastCall' = Call("handleIncomingConnection", 0, NilMsg, line, "unmarshal")
            /\ UNCHANGED <<connections, link>>
       ELSE LET key == Unmarshal(line).SenderID
            IN /\ handshakes' = [handshakes EXCEPT ![a] = [stage |-> "registered",
                                                           key |-> key]]
               /\ lastCall' = Call("handleIncomingConnection",
                                   IF key = <<>> THEN 0 ELSE key[1], NilMsg, line, "nil")
               /\ IF key = <<>>
                  THEN UNCHANGED <<connections, link>>
                  ELSE /\ connections' = [connections EXCEPT ![key[1]] =
                              IF @.State = "none"
                              THEN [State |-> "connected", SendChan |-> <<>>,
                                    cancelled |-> CmDone]
                              ELSE [@ EXCEPT !.State = "connected"]]
                       /\ link' = [link EXCEPT ![key[1]] =
                              [NoLink EXCEPT !.sock = "up", !.reader = "top",
                                             !.writer = "run"]]
    /\ UNCHANGED <<histVars, regVars, connVars, lockVars, incomingMessages,
                   username, messageSequence, written, building, shutdown>>

\* handleIncomingConnection: ReadString returns an error (the remote closed
\* or reset the socket before a line was complete); the socket is closed.
HandshakeFails(a) ==
    /\ handshakes[a].stage = "reading"
    /\ handshakes' = [handshakes EXCEPT ![a].stage = "closed"]
    /\ lastCall' = Call("handleIncomingConnection", 0, NilMsg, <<>>, "read")
    /\ UNCHANGED <<histVars, regVars, connVars, lockVars, connections,
                   incomingMessages, username, messageSequence, written,
                   building, link, shutdown>>

\* handlePeerMessages, first pass of the loop: with the entry's context done
\* the task returns and the deferred disconnectPeer runs; otherwise it sets
\* the read deadline and blocks in ReadString.
handlePeerMessagesTop(p) ==
    /\ link[p].reader = "top"
    /\ IF connections[p].cancelled
       THEN /\ connections' = [connections EXCEPT ![p].State = "failed"]
            /\ link' = [link EXCEPT ![p].reader = "done", ![p].sock = "closed"]
            /\ lastCall' = Call("disconnectPeer", p, NilMsg, <<>>, "nil")
       ELSE /\ link' = [link EXCEPT ![p].reader = "run"]
            /\ UNCHANGED <<connections, lastCall>>
    /\ UNCHANGED <<histVars, regVars, connVars, lockVars, incomingMessages,
                   username, messageSequence, written, building, handshakes,
                   shutdown>>

\* attemptConnection, called by ConnectToPeer from the join callback or
\* started by retryFailedConnections: the dial succeeded, the identification
\* line is flushed and the two tasks are started.  A new entry's context is
\* derived from the manager's; a retried entry keeps its own.
attemptConnection(p) ==
    /\ connections[p].State \in {"none", "failed"}
    /\ link[p].reader = "done" /\ link[p].writer = "done"
    /\ connections' = [connections EXCEPT ![p] =
          IF @.State = "none"
          THEN [State |-> "connected", SendChan |-> <<>>, cancelled |-> CmDone]
          ELSE [@ EXCEPT !.State = "connected"]]
    /\ link' = [link EXCEPT ![p] = [NoLink EXCEPT !.sock = "up", !.reader = "top",
                                                  !.writer = "run"]]
    /\ UNCHANGED <<histVars, regVars, connVars, lockVars, incomingMessages,
                   username, messageSequence, written, lastCall, building,
                   handshakes, shutdown>>

\* ConnectionManager.Stop, cm.wg.Wait(): the tasks the wait group counts
\* have returned, that is acceptConnections' handshake tasks and the read
\* and write task of every entry.
TasksNotAwaited == TRUE

TasksExited ==
    /\ \A p \in ChatPeers : link[p].reader = "done" /\ link[p].writer = "done"
    /\ \A a \in 1..MaxAccepts : handshakes[a].stage # "reading"

\* ChatService.Stop, one statement at a time: NotifyPeerLeave broadcasts the
\* leave envelope; connections.Stop cancels the manager's context, from
\* which every entry's is derived, closes the listener and every entry's
\* socket, and waits for the tasks; discovery.Stop; close(incomingMessages).
Stop ==
    /\ \/ /\ shutdown.pc = "running"
          /\ shutdown' = [shutdown EXCEPT !.pc = "notified"]
          /\ messageSequence' = nextSequence(messageSequence)
          /\ connections' = Broadcast(connections,
                                NewMessage("leave", Now, nextSequence(messageSequence)))
          /\ UNCHANGED link
       \/ /\ shutdown.pc = "notified"
          /\ shutdown' = [shutdown EXCEPT !.pc = "cmCancelled"]
          /\ connections' = [p \in ChatPeers |->
                IF connections[p].State = "none" THEN connections[p]
                ELSE [connections[p] EXCEPT !.cancelled = TRUE]]
          /\ UNCHANGED <<messageSequence, link>>
       \/ /\ shutdown.pc = "cmCancelled"
          /\ shutdown' = [shutdown EXCEPT !.pc = "cmClosed"]
          /\ link' = [p \in ChatPeers |-> [link[p] EXCEPT !.sock = "closed"]]
          /\ UNCHANGED <<messageSequence, connections>>
       \/ /\ shutdown.pc = "cmClosed"
          /\ TasksExited
          /\ shutdown' = [shutdown EXCEPT !.pc = "cmStopped"]
          /\ UNCHANGED <<messageSequence, connections, link>>
       \/ /\ shutdown.pc = "cmStopped"
          /\ shutdown' = [shutdown EXCEPT !.pc = "discStopped"]
          /\ UNCHANGED <<messageSequence, connections, link>>
       \/ /\ shutdown.pc = "discStopped"
          /\ shutdown' = [shutdown EXCEPT !.pc = "closed"]
          /\ UNCHANGED <<messageSequence, connections, link>>
    /\ UNCHANGED <<histVars, regVars, connVars, lockVars, incomingMessages,
                   username, written, lastCall, building, handshakes>>

\* SendMessage called after Stop has closed incomingMessages: the sequence
\* number, the broadcast and the history are as ever, and the send on the
\* closed channel in the select panics.
SendMessageAfterClose(content) ==
    /\ shutdown.pc = "closed"
    /\ content # <<>>
    /\ MayBuild
    /\ LET msg == NewMessage("chat", Now, nextSequence(messageSequence))
       IN /\ messageSequence' = nextSequence(messageSequence)
          /\ connections' = Broadcast(connections, msg)
          /\ AddMessage(msg)
          /\ lastCall' = Call("SendMessage", 0, msg, content, "send on closed channel")
    /\ shutdown' = [shutdown EXCEPT !.panic = TRUE]
    /\ UNCHANGED <<regVars, connVars, lockVars, incomingMessages, username,
                   written, building, link, handshakes>>

\* The discovery service of the leaving peer and the owner's tasks that
\* hear it.  The leaving peer is LinkPeer; the leave notification its
\* ChatService.Stop queues on the connection first is a line like any other
\* and is left out.

\* beaconLoop of the leaving peer: the ticker fires and sendAnnouncement
\* multicasts an announce.  The loop runs until the cancel in
\* DiscoveryService.Stop.
beaconLoop ==
    /\ leaver.pc # "stopped"
    /\ Len(leaver.air) < MaxAir
    /\ leaver' = [leaver EXCEPT !.air = Append(@, Announce(LinkPeer))]
    /\ UNCHANGED <<histVars, connVars, chatVars, lockVars, peers, joinCalls,
                   leaveCalls, selfHeard, lastReg>>

\* ChatService.Stop of the leaving peer as far as connections.Stop, which
\* closes its sockets: the owner's reads and writes on the connection fail
\* from then on.
StopConnections ==
    /\ leaver.pc = "running"
    /\ leaver' = [leaver EXCEPT !.pc = "closed"]
    /\ link' = [link EXCEPT ![LinkPeer].rdFail = TRUE, ![LinkPeer].wrFail = TRUE]
    /\ UNCHANGED <<histVars, connVars, lockVars, peers, joinCalls, leaveCalls,
                   selfHeard, lastReg, connections, incomingMessages, username,
                   messageSequence, written, lastCall, building,
                   handshakes, shutdown>>

\* DiscoveryService.Stop calls sendLeaveMessage: the leave envelope is
\* multicast and the caller sleeps 100 ms.
sendLeaveMessage ==
    /\ leaver.pc = "closed"
    /\ leaver' = [leaver EXCEPT !.pc = "left", !.air = Append(@, Leave(LinkPeer))]
    /\ UNCHANGED <<histVars, connVars, chatVars, lockVars, peers, joinCalls,
                   leaveCalls, selfHeard, lastReg>>

\* DiscoveryService.Stop after the sleep: ds.cancel() ends the background
\* tasks and the multicast socket is closed.
StopDiscovery ==
    /\ leaver.pc = "left"
    /\ leaver' = [leaver EXCEPT !.pc = "stopped"]
    /\ UNCHANGED <<histVars, connVars, chatVars, lockVars, peers, joinCalls,
                   leaveCalls, selfHeard, lastReg>>

\* receiveLoop of the owner: the oldest envelope under way arrives and
\* handleDiscoveryMessage takes it.
receiveLoop ==
    /\ leaver.air # <<>>
    /\ LET env == Head(leaver.air)
       IN /\ ReceiveDiscovery(RegistryOwner, env)
          /\ lastReg' = RegStep("receive", env,
                  handleDiscoveryMessage(RegistryOwner, peers[RegistryOwner], env))
    /\ leaver' = [leaver EXCEPT !.air = Tail(@)]
    /\ UNCHANGED <<histVars, connVars, chatVars, lockVars>>

\* cleanupLoop of the owner: the cleanup ticker fires.
cleanupLoop ==
    /\ Sweep(RegistryOwner)
    /\ lastReg' = RegStep("sweep", NoEnvelope, CleanupStalePeers(peers[RegistryOwner]))
    /\ UNCHANGED <<leaver, histVars, connVars, chatVars, lockVars>>

Letters(n) == [i \in 1..n |-> "a"]

\* Texts and names a caller may pass: empty, with a blank, of exactly the
\* maximum length, and one longer.
Contents == {<<>>, <<"h", "i">>}

Usernames == {<<>>, <<"a", " ", "l">>,
              Letters(MaxUsernameLen), Letters(MaxUsernameLen + 1)}

\* NewChatService: no entry, empty stream, no sequence number used.
InitChatFields ==
    /\ connections = [p \in ChatPeers |-> NoEntry]
    /\ incomingMessages = <<>>
    /\ username = <<"a", "l">>
    /\ messageSequence = 0
    /\ written = [p \in ChatPeers |-> <<>>]
    /\ lastCall = Call("none", 0, NilMsg, <<>>, "nil")
    /\ building = [t \in SeqTasks |-> NilMsg]
    /\ link = [p \in ChatPeers |-> LinkOf(connections[p])]
    /\ handshakes = NoHandshakes
    /\ shutdown = Running

\* A service that has sent SendChanCap - 1 heartbeats: each peer has no
\* entry, or one that disconnectPeer left failed after its write task had
\* written them all, or a connected one whose write task has written them
\* all, or a connected one whose write task has written none (its socket
\* takes no data).
ChatEntries ==
    {NoEntry,
     [State |-> "failed", SendChan |-> <<>>, cancelled |-> TRUE],
     [State |-> "connected", SendChan |-> <<>>, cancelled |-> FALSE],
     [State |-> "connected", SendChan |-> Heartbeats(SendChanCap - 1),
      cancelled |-> FALSE]}

InitChat ==
    /\ InitServiceHistory
    /\ InitRegistry
    /\ InitConn
    /\ InitLockFields
    /\ connections \in [ChatPeers -> ChatEntries]
    /\ incomingMessages = <<>>
    /\ username = <<"a", "l">>
    /\ messageSequence = SendChanCap - 1
    /\ written = [p \in ChatPeers |-> <<>>]
    /\ lastCall = Call("none", 0, NilMsg, <<>>, "nil")
    /\ building = [t \in SeqTasks |-> NilMsg]
    /\ link = [p \in ChatPeers |-> LinkOf(connections[p])]
    /\ handshakes = NoHandshakes
    /\ shutdown = Running

\* The calls a front-end and the discovery callbacks make, and the write
\* tasks.
NextChat ==
    \/ \E p \in ChatPeers : SendJoinTo(p)
    \/ \E content \in Contents : SendMessage(content)
    \/ \E name \in Usernames : ChangeUsername(name)
    \/ \E type \in {"leave", "heartbeat"} : Notify(type)
    \/ \E p \in ChatPeers : Len(written[p]) < MaxWritten /\ WriterTake(p)

SpecChat == InitChat /\ [][NextChat]_vars

\* The same service with every peer connected and all it sent written,
\* receiving what the peers send while it sends chat text and heartbeats.
InitInbound ==
    /\ InitServiceHistory
    /\ InitRegistry
    /\ InitConn
    /\ InitLockFields
    /\ connections = [p \in ChatPeers |->
                         [State |-> "connected", SendChan |-> <<>>,
                          cancelled |-> FALSE]]
    /\ incomingMessages = <<>>
    /\ username = <<"a", "l">>
    /\ messageSequence = SendChanCap - 1
    /\ written = [p \in ChatPeers |-> <<>>]
    /\ lastCall = Call("none", 0, NilMsg, <<>>, "nil")
    /\ building = [t \in SeqTasks |-> NilMsg]
    /\ link = [p \in ChatPeers |-> LinkOf(connections[p])]
    /\ handshakes = NoHandshakes
    /\ shutdown = Running

NextInbound ==
    \/ \E msg \in PeerEnvelopes, from \in ChatPeers : OnMessage(msg, from)
    \/ \E content \in Contents : SendMessage(content)
    \/ Notify("heartbeat")

SpecInbound == InitInbound /\ [][NextInbound]_vars

\* The same service with its calls split where they take their sequence
\* number, so that calls of different tasks overlap.
InitSequence ==
    /\ InitServiceHistory
    /\ InitRegistry
    /\ InitConn
    /\ InitLockFields
    /\ connections = [p \in ChatPeers |->
                         [State |-> "connected", SendChan |-> <<>>,
                          cancelled |-> FALSE]]
    /\ incomingMessages = <<>>
    /\ username = <<"a", "l">>
    /\ messageSequence = SendChanCap - 1
    /\ written = [p \in ChatPeers |-> <<>>]
    /\ lastCall = Call("none", 0, NilMsg, <<>>, "nil")
    /\ building = [t \in SeqTasks |-> NilMsg]
    /\ link = [p \in ChatPeers |-> LinkOf(connections[p])]
    /\ handshakes = NoHandshakes
    /\ shutdown = Running

NextSequence ==
    \/ \E t \in SeqTasks : \E kind \in TaskKinds(t) : BuildEnvelope(t, kind)
    \/ \E t \in SeqTasks : HandOn(t)

SpecSequence == InitSequence /\ [][NextSequence]_vars

\* The service with both peers connected, the peers writing lines to it
\* while it sends chat text and heartbeats, and sockets that fail.
InitLink ==
    /\ InitServiceHistory
    /\ InitRegistry
    /\ InitConn
    /\ InitLockFields
    /\ connections = [p \in ChatPeers |->
                         [State |-> "connected", SendChan |-> <<>>,
                          cancelled |-> FALSE]]
    /\ incomingMessages = <<>>
    /\ username = <<"a", "l">>
    /\ messageSequence = SendChanCap - 1
    /\ written = [p \in ChatPeers |-> <<>>]
    /\ lastCall = Call("none", 0, NilMsg, <<>>, "nil")
    /\ building = [t \in SeqTasks |-> NilMsg]
    /\ link = [p \in ChatPeers |-> LinkOf(connections[p])]
    /\ handshakes = NoHandshakes
    /\ shutdown = Running

\* The read tasks: the peer writes lines, sound and unsound ones, and
\* sockets fail.
NextReader ==
    \/ PeerWrites(LinkPeer)
    \/ \E p \in ChatPeers : ReadLine(p)
    \/ \E p \in ChatPeers : ReadReturns(p)
    \/ \E p \in ChatPeers, kind \in {"reset", "silent", "stalled"} : LinkFault(p, kind)

SpecReader == InitLink /\ [][NextReader]_vars

\* The write tasks: the service sends chat text and heartbeats, and sockets
\* fail.
NextWriter ==
    \/ SendMessage(<<"h", "i">>)
    \/ Notify("heartbeat")
    \/ \E p \in ChatPeers : WriterTake(p)
    \/ \E p \in ChatPeers : WriteReturns(p)
    \/ \E p \in ChatPeers : WriterCancelled(p)
    \/ \E p \in ChatPeers : ReadReturns(p)
    \/ \E p \in ChatPeers, kind \in {"reset", "silent", "stalled"} : LinkFault(p, kind)

SpecWriter == InitLink /\ [][NextWriter]_vars

\* Connections that stay up: the service sends, its write tasks write, the
\* peer writes and the read task reads.  Of the lines FromJSON refuses the
\* peer writes one kind here, a line that is not JSON.
NextFifo ==
    \/ SendMessage(<<"h", "i">>)
    \/ Notify("heartbeat")
    \/ \E p \in ChatPeers : WriterTake(p)
    \/ /\ PeerWrites(LinkPeer)
       /\ LET line == link'[LinkPeer].wire[Len(link'[LinkPeer].wire)]
          IN FromJSON(line).err = "nil" \/ ~line.json
    \/ \E p \in ChatPeers : ReadLine(p)

SpecFifo == InitLink /\ [][NextFifo]_vars

\* Each write task is a goroutine blocked in the receive from SendChan and
\* each read task one blocked in ReadString; the Go scheduler runs a
\* goroutine that can go on.
FairFifo ==
    /\ SpecFifo
    /\ \A p \in ChatPeers : WF_vars(WriterTake(p))
    /\ \A p \in ChatPeers : WF_vars(ReadLine(p))

\* A connected pair: the owner has the peer in its registry and a connected
\* entry for it; the peer beacons and then stops.
InitLeave ==
    /\ InitServiceHistory
    /\ InitConn
    /\ InitLockFields
    /\ peers = [p \in Procs |-> [i \in IdSet |->
                    IF p = RegistryOwner /\ i = LinkPeer
                    THEN [status |-> "online", seen |-> 0, ip |-> 1, port |-> 1]
                    ELSE NoPeer]]
    /\ joinCalls = [p \in Procs |-> IF p = RegistryOwner THEN {LinkPeer} ELSE {}]
    /\ leaveCalls = [p \in Procs |-> {}]
    /\ selfHeard = [p \in Procs |-> FALSE]
    /\ lastReg = RegStep("none", NoEnvelope, [joined |-> {}, left |-> {}])
    /\ leaver = LeaverUp
    /\ connections = [p \in ChatPeers |->
                         IF p = LinkPeer
                         THEN [State |-> "connected", SendChan |-> <<>>,
                               cancelled |-> FALSE]
                         ELSE NoEntry]
    /\ incomingMessages = <<>>
    /\ username = <<"a", "l">>
    /\ messageSequence = 0
    /\ written = [p \in ChatPeers |-> <<>>]
    /\ lastCall = Call("none", 0, NilMsg, <<>>, "nil")
    /\ building = [t \in SeqTasks |-> NilMsg]
    /\ link = [p \in ChatPeers |-> LinkOf(connections[p])]
    /\ handshakes = NoHandshakes
    /\ shutdown = Running

NextLeave ==
    \/ beaconLoop
    \/ StopConnections
    \/ sendLeaveMessage
    \/ StopDiscovery
    \/ receiveLoop
    \/ cleanupLoop
    \/ SeenTick(RegistryOwner) /\ UNCHANGED <<histVars, connVars, chatVars, lockVars>>
    \/ ReadReturns(LinkPeer)

SpecLeave == InitLeave /\ [][NextLeave]_vars

\* Stop is one sequential call, so once begun it goes on; the owner's
\* receive task is a goroutine blocked in the multicast read and its read
\* task one blocked in ReadString, and the Go scheduler runs a goroutine that
\* can go on.
FairLeave ==
    /\ SpecLeave
    /\ WF_vars(sendLeaveMessage)
    /\ WF_vars(StopDiscovery)
    /\ WF_vars(receiveLoop)
    /\ WF_vars(ReadReturns(LinkPeer))

(***************************************************************************)
(* Specifications.                                                         *)
(***************************************************************************)
\* The envelopes of peers on the inbound stream.
Delivered == SelectSeq(incomingMessages, LAMBDA m : m.id <= NumMsgIds)

\* The service's own chat envelopes 1..n, as SendMessage put them on the
\* inbound stream.
Backlog(n) == [i \in 1..n |-> NewMessage("chat", 1, i)]

\* The service after SendChanCap - 1 envelopes of its own and a
\* ClearMessageHistory: the front-end has taken all of them off the inbound
\* stream, or none, which leaves the stream one free slot.
InitDelivery ==
    /\ InitServiceHistory
    /\ InitRegistry
    /\ InitConn
    /\ InitLockFields
    /\ connections = [p \in ChatPeers |->
                         [State |-> "connected", SendChan |-> <<>>,
                          cancelled |-> FALSE]]
    /\ incomingMessages \in {<<>>, Backlog(SendChanCap - 1)}
    /\ username = <<"a", "l">>
    /\ messageSequence = SendChanCap - 1
    /\ written = [p \in ChatPeers |-> <<>>]
    /\ lastCall = Call("none", 0, NilMsg, <<>>, "nil")
    /\ building = [t \in SeqTasks |-> NilMsg]
    /\ link = [p \in ChatPeers |-> LinkOf(connections[p])]
    /\ handshakes = NoHandshakes
    /\ shutdown = Running

\* Envelopes arrive from peers, repeated ones among them, while the
\* front-end sends and clears the history.
NextDelivery ==
    \/ \E msg \in PeerEnvelopes, from \in ChatPeers : OnMessage(msg, from)
    \/ SendMessage(<<"h", "i">>)
    \/ Len(Delivered) <= MaxBuilt /\ messages # <<>> /\ ClearMessageHistory

SpecDelivery == InitDelivery /\ [][NextDelivery]_vars

\* The write tasks, with the select of a task whose context is done taking
\* the receive from SendChan.
NextSocket ==
    \/ NextWriter
    \/ \E p \in ChatPeers, seen \in {"nil", "closed"} : handlePeerSendingAfterCancel(p, seen)

SpecSocket == InitLink /\ [][NextSocket]_vars

\* A running service is stopped while peers write and sockets are accepted
\* and dialled.
InitStop ==
    /\ InitServiceHistory
    /\ InitRegistry
    /\ InitConn
    /\ InitLockFields
    /\ connections = [p \in ChatPeers |->
                         IF p = LinkPeer
                         THEN [State |-> "connected", SendChan |-> <<>>,
                               cancelled |-> FALSE]
                         ELSE NoEntry]
    /\ incomingMessages = <<>>
    /\ username = <<"a", "l">>
    /\ messageSequence = SendChanCap - 1
    /\ written = [p \in ChatPeers |-> <<>>]
    /\ lastCall = Call("none", 0, NilMsg, <<>>, "nil")
    /\ building = [t \in SeqTasks |-> NilMsg]
    /\ link = [p \in ChatPeers |-> LinkOf(connections[p])]
    /\ handshakes = NoHandshakes
    /\ shutdown = Running

NextStop ==
    \/ Stop
    \/ \E a \in 1..MaxAccepts : acceptConnections(a)
    \/ \E a \in 1..MaxAccepts : \E line \in IdentLines :
          FromJSON(line).err = "nil" /\ handleIncomingConnection(a, line)
    \/ \E a \in 1..MaxAccepts : HandshakeFails(a)
    \/ \E p \in ChatPeers : attemptConnection(p)
    \/ \E p \in ChatPeers : handlePeerMessagesTop(p)
    \/ /\ PeerWrites(LinkPeer)
       /\ FromJSON(link'[LinkPeer].wire[Len(link'[LinkPeer].wire)]).err = "nil"
    \/ \E p \in ChatPeers : ReadLine(p)
    \/ \E p \in ChatPeers : ReadReturns(p)
    \/ \E p \in ChatPeers : WriterCancelled(p)

SpecStop == InitStop /\ [][NextStop]_vars

\* The front-end keeps sending while the service is stopped.
NextClose ==
    \/ Stop
    \/ \E p \in ChatPeers : ReadReturns(p)
    \/ \E p \in ChatPeers : WriterTake(p)
    \/ \E p \in ChatPeers : WriterCancelled(p)
    \/ shutdown.pc # "closed" /\ SendMessage(<<"h", "i">>)
    \/ SendMessageAfterClose(<<"h", "i">>)

SpecClose == InitStop /\ [][NextClose]_vars

\* The scheduler runs every task of the service that can take a step, and
\* the wait of Stop returns when the count reaches zero, however soon a
\* later dial raises it again; what the remote ends do (write a line, close
\* a socket) is up to them.
FairStop ==
    /\ SpecStop
    /\ SF_vars(Stop)
    /\ \A p \in ChatPeers : WF_vars(handlePeerMessagesTop(p))
    /\ \A p \in ChatPeers : WF_vars(ReadReturns(p))
    /\ \A p \in ChatPeers : WF_vars(WriterCancelled(p))

\* A service that has been running: one peer has no entry or an entry that
\* an earlier disconnectPeer left failed, the others are connected; sockets
\* are accepted and identify themselves, or fail to.
InitHandshake ==
    /\ InitServiceHistory
    /\ InitRegistry
    /\ InitConn
    /\ InitLockFields
    /\ \E e \in {NoEntry, [State |-> "failed", SendChan |-> <<>>, cancelled |-> TRUE]} :
          connections = [p \in ChatPeers |->
                            IF p = LinkPeer THEN e
                            ELSE [State |-> "connected", SendChan |-> <<>>,
                                  cancelled |-> FALSE]]
    /\ incomingMessages = <<>>
    /\ username = <<"a", "l">>
    /\ messageSequence = 0
    /\ written = [p \in ChatPeers |-> <<>>]
    /\ lastCall = Call("none", 0, NilMsg, <<>>, "nil")
    /\ building = [t \in SeqTasks |-> NilMsg]
    /\ link = [p \in ChatPeers |-> LinkOf(connections[p])]
    /\ handshakes = NoHandshakes
    /\ shutdown = Running

NextHandshake ==
    \/ \E a \in 1..MaxAccepts : acceptConnections(a)
    \/ \E a \in 1..MaxAccepts : \E line \in IdentLines : handleIncomingConnection(a, line)
    \/ \E a \in 1..MaxAccepts : HandshakeFails(a)
    \/ \E p \in ChatPeers : handlePeerMessagesTop(p)
    \/ \E p \in ChatPeers : ReadReturns(p)
    \/ \E p \in ChatPeers : WriterCancelled(p)
    \/ \E p \in ChatPeers : LinkFault(p, "reset")

SpecHandshake == InitHandshake /\ [][NextHandshake]_vars

\* NewChatService: the history, the registry and the connection manager of
\* every participant as constructed.
InitService ==
    /\ InitServiceHistory /\ InitRegistry /\ InitConn /\ InitChatFields
    /\ InitLockFields

NextHistory == HistAdd \/ HistClear

\* A history of any capacity, beside a service that has not started.
InitStandaloneHistory ==
    InitHistory /\ InitRegistry /\ InitConn /\ InitChatFields /\ InitLockFields

SpecHistory == InitStandaloneHistory /\ [][NextHistory]_vars

RegReceive ==
    /\ \E env \in Envelopes : ReceiveDiscovery(RegistryOwner, env)
    /\ UNCHANGED <<lastReg, leaver, histVars, connVars, chatVars, lockVars>>

RegSweep ==
    /\ Sweep(RegistryOwner)
    /\ UNCHANGED <<lastReg, leaver, histVars, connVars, chatVars, lockVars>>

RegTick == SeenTick(RegistryOwner) /\ UNCHANGED <<histVars, connVars, chatVars, lockVars>>

NextRegistry == RegReceive \/ RegSweep \/ RegTick

SpecRegistry == InitService /\ [][NextRegistry]_vars

\* One step of the owner's discovery tasks on a registry as earlier traffic
\* left it: records of any age (a stale one is older than the stale
\* threshold), each inserted with a join callback.
SeenMarks == {0, StaleAfter, StaleAfter + 1, OfflineAfter, OfflineAfter + 1}

KnownPeers ==
    {NoPeer} \cup
    {r \in [status : {"online", "stale"}, seen : SeenMarks, ip : Ips, port : {1}] :
        r.status = "stale" => r.seen > StaleAfter}

InitRegistryStep ==
    /\ InitServiceHistory /\ InitConn /\ InitChatFields /\ InitLockFields
    /\ \E known \in [IdSet \ {RegistryOwner} -> KnownPeers] :
          peers = [p \in Procs |-> [i \in IdSet |->
                      IF p = RegistryOwner /\ i # p THEN known[i] ELSE NoPeer]]
    /\ joinCalls = [p \in Procs |-> {i \in IdSet : peers[p][i] # NoPeer}]
    /\ leaveCalls = [p \in Procs |-> {}]
    /\ selfHeard = [p \in Procs |-> FALSE]
    /\ lastReg = RegStep("none", NoEnvelope, [joined |-> {}, left |-> {}])
    /\ leaver = LeaverUp

NextRegistryStep ==
    /\ lastReg.op = "none"
    /\ \/ \E env \in AddressedEnvelopes :
            /\ ReceiveDiscovery(RegistryOwner, env)
            /\ lastReg' = RegStep("receive", env,
                    handleDiscoveryMessage(RegistryOwner, peers[RegistryOwner], env))
       \/ /\ Sweep(RegistryOwner)
          /\ lastReg' = RegStep("sweep", NoEnvelope,
                                CleanupStalePeers(peers[RegistryOwner]))
    /\ UNCHANGED <<leaver, histVars, connVars, chatVars, lockVars>>

SpecRegistryStep == InitRegistryStep /\ [][NextRegistryStep]_vars

\* Two participants: discovery, connection managers and the network.
ConnDiscover == (\E p, q \in Procs : Discover(p, q)) /\ UNCHANGED <<histVars, chatVars, lockVars>>

ConnCleanup == (\E p, q \in Procs : ConnSweep(p, q)) /\ UNCHANGED <<histVars, chatVars, lockVars>>

ConnCtpDial == (\E p \in Procs : ConnectToPeerDial(p)) /\ UNCHANGED <<histVars, chatVars, lockVars>>

\* A tick of the retry ticker that starts no attempt changes nothing a
\* connection manager reads.
ConnRetryWake ==
    (\E p \in Procs : RetryStarts(p) # {} /\ RetryWake(p)) /\ UNCHANGED <<histVars, chatVars, lockVars>>

ConnAttemptStart == (\E t \in dialTasks : AttemptStart(t)) /\ UNCHANGED <<histVars, chatVars, lockVars>>

ConnDialOk == (\E t \in dialTasks : DialOk(t)) /\ UNCHANGED <<histVars, chatVars, lockVars>>

ConnDialFail == (\E t \in dialTasks : DialFail(t)) /\ UNCHANGED <<histVars, chatVars, lockVars>>

ConnCountFailure == (\E t \in dialTasks : CountFailure(t)) /\ UNCHANGED <<histVars, chatVars, lockVars>>

ConnFlushIdent == (\E t \in dialTasks : FlushIdent(t)) /\ UNCHANGED <<histVars, chatVars, lockVars>>

ConnHandleIncoming == (\E c \in 1..Len(sockets) : HandleIncoming(c)) /\ UNCHANGED <<histVars, chatVars, lockVars>>

ConnRejectIncoming == (\E c \in 1..Len(sockets) : RejectIncoming(c)) /\ UNCHANGED <<histVars, chatVars, lockVars>>

ConnReaderTop == (\E r \in readers : ReaderTop(r)) /\ UNCHANGED <<histVars, chatVars, lockVars>>

ConnReaderError == (\E r \in readers : ReaderError(r)) /\ UNCHANGED <<histVars, chatVars, lockVars>>

ConnWriterExit == (\E w \in writers : WriterExit(w)) /\ UNCHANGED <<histVars, chatVars, lockVars>>

ConnListenerUp == (\E p \in Procs : ListenerUp(p)) /\ UNCHANGED <<histVars, chatVars, lockVars>>

ConnFault == (\E c \in 1..Len(sockets) : Fault(c)) /\ UNCHANGED <<histVars, chatVars, lockVars>>

ConnTime == ConnTick /\ UNCHANGED <<histVars, chatVars, lockVars>>

NextMesh ==
    \/ ConnDiscover \/ ConnCtpDial
    \/ ConnRetryWake \/ ConnAttemptStart \/ ConnDialOk \/ ConnDialFail
    \/ ConnCountFailure
    \/ ConnFlushIdent \/ ConnHandleIncoming
    \/ ConnReaderTop \/ ConnListenerUp \/ ConnTime

NextConn ==
    \/ NextMesh
    \/ ConnCleanup \/ ConnRejectIncoming \/ ConnReaderError \/ ConnWriterExit \/ ConnFault

SpecConn == InitService /\ [][NextConn]_vars

\* The same participants on a network that loses nothing, with every task
\* scheduled again and again: the announce that makes p hear of q is
\* repeated by q's beacon, Start returns, a dial returns within its timeout,
\* the tickers fire and started tasks run.
FairMesh ==
    /\ InitService
    /\ [][NextMesh]_vars
    /\ \A p, q \in Procs : WF_vars(Discover(p, q) /\ UNCHANGED <<histVars, chatVars, lockVars>>)
    /\ \A p \in Procs : WF_vars(ListenerUp(p) /\ UNCHANGED <<histVars, chatVars, lockVars>>)
    /\ WF_vars(ConnCtpDial)
    /\ WF_vars(ConnRetryWake)
    /\ WF_vars(ConnAttemptStart)
    /\ WF_vars(ConnDialOk)
    /\ WF_vars(ConnDialFail)
    /\ WF_vars(ConnCountFailure)
    /\ WF_vars(ConnFlushIdent)
    /\ WF_vars(ConnHandleIncoming)
    /\ WF_vars(ConnReaderTop)
    /\ WF_vars(ConnTime)

\* One entry of one connection table, in every condition the retry loop can
\* find it in.  The side that never dials has never attempted (retry_count
\* 0, zero LastAttempt) and holds the entry an inbound handshake made.
RetryEntries(p, q) ==
    IF StringLess(PeerId(p), PeerId(q))
    THEN [allocs : {1}, State : ConnStates, Conn : {0},
          RetryCount : 0..MaxRetryInput, since : 0..SinceCap, cancelled : {FALSE}]
    ELSE [allocs : {1}, State : {"connected", "failed"}, Conn : {0},
          RetryCount : {0}, since : {SinceCap}, cancelled : {FALSE}]

InitRetry ==
    /\ InitServiceHistory
    /\ InitRegistry
    /\ InitChatFields
    /\ InitLockFields
    /\ \E p, q \in Procs :
          /\ p # q
          /\ \E e \in RetryEntries(p, q) :
                LET c == IF e.State = "connected" THEN 1 ELSE 0
                    dials == StringLess(PeerId(p), PeerId(q))
                    sock == [from |-> IF dials THEN p ELSE q,
                             to |-> IF dials THEN q ELSE p,
                             fromOpen |-> TRUE, toOpen |-> TRUE, fault |-> FALSE,
                             stage |-> "registered", ident |-> TRUE]
                IN /\ conns = [x \in Procs |-> [y \in Procs |->
                                  IF x = p /\ y = q
                                  THEN [e EXCEPT !.Conn = c,
                                                 !.cancelled = (e.State = "failed" /\ ~dials)]
                                  ELSE NoConn]]
                   /\ sockets = IF c = 1 THEN <<sock>> ELSE <<>>
                   /\ readers = IF c = 1
                                THEN {[p |-> p, q |-> q, sock |-> 1, pc |-> "read"]}
                                ELSE {}
                   /\ writers = IF c = 1 THEN {[p |-> p, q |-> q, sock |-> 1]} ELSE {}
    /\ listening = [p \in Procs |-> TRUE]
    /\ ctp = [p \in Procs |-> IdleCtp]
    /\ dialTasks = {}
    /\ dialed = {}
    /\ faults = 0
    /\ woken = {}

RetryTick == (\E p \in Procs : RetryWake(p)) /\ UNCHANGED <<histVars, chatVars, lockVars>>

NextRetry == RetryTick

SpecRetry == InitRetry /\ [][NextRetry]_vars

\* A started service whose handlers are any the interface admits.
InitCallbacks ==
    /\ InitServiceHistory
    /\ InitRegistry
    /\ InitConn
    /\ InitChatFields
    /\ mu = [writer |-> "none", readers |-> {}]
    /\ calls = [t \in RegTasks |-> <<>>]
    /\ handlerOp \in HandlerOps

NextCallbacks ==
    \/ \E t \in RegTasks, op \in WriteOps \cup ReadOps,
          id \in IdSet \ {RegistryOwner} : RegCall(t, op, id)
    \/ \E t \in RegTasks : RegLock(t)
    \/ \E t \in RegTasks : RegCallback(t)
    \/ \E t \in RegTasks : RegUnlock(t)

SpecCallbacks == InitCallbacks /\ [][NextCallbacks]_vars

(***************************************************************************)
(* Claims about the message history (SpecHistory).                         *)
(***************************************************************************)
HistoryIds == {messages[i].id : i \in 1..Len(messages)}

\* C9: after any sequence of adds and clears, the ids recorded for duplicate
\* detection are exactly the ids of the envelopes held in the sequence, and
\* no id occurs twice in the sequence.
C9_IdSetConsistent ==
    /\ messageIDs = HistoryIds
    /\ \A i, j \in 1..Len(messages) : i # j => messages[i].id # messages[j].id

\* An add whose cleanup evicted the envelope it had just stored, leaving a
\* full, non-empty history.
C9_Witness ==
    /\ lastAdd.op = "add" /\ lastAdd.ret /\ lastAdd.dropped > 0
    /\ lastAdd.msg.id \notin messageIDs
    /\ Len(messages) = maxMessages

\* C10: after every add the history holds at most maxMessages envelopes; an
\* add that takes the length above capacity removes exactly length - capacity
\* envelopes, none of them newer than one that is kept, and their ids leave
\* the id set in the same step.
C10_CapacityStep ==
    (lastAdd'.op = "add" /\ lastAdd'.ret) =>
        LET all == Range(messages) \cup {lastAdd'.msg}
            total == Len(messages) + 1
            excess == IF total > maxMessages THEN total - maxMessages ELSE 0
            removed == all \ Range(messages')
        IN /\ Len(messages') <= maxMessages
           /\ Len(messages') = total - excess
           /\ Range(messages') \subseteq all
           /\ Cardinality(removed) = excess
           /\ lastAdd'.dropped = excess
           /\ \A r \in removed : \A k \in Range(messages') : r.ts <= k.ts
           /\ messageIDs' = (messageIDs \cup {lastAdd'.msg.id}) \ {r.id : r \in removed}

C10_Capacity == [][C10_CapacityStep]_vars

\* An add that exceeded the capacity and kept the envelope it stored.
C10_Witness ==
    /\ lastAdd.op = "add" /\ lastAdd.ret /\ lastAdd.dropped > 0
    /\ lastAdd.msg \in Range(messages)
    /\ Len(messages) = maxMessages

(***************************************************************************)
(* Claims about the registry (SpecRegistry).                               *)
(***************************************************************************)
\* C8: whatever envelopes were received (also ones carrying the local peer
\* id), and whatever sweeps and removes ran, no registry record has the local
\* peer id and neither callback was ever invoked for the local peer id.
C8_RegistryExcludesSelf ==
    \A p \in Procs :
        /\ peers[p][p] = NoPeer
        /\ \A i \in IdSet : peers[p][i] # NoPeer => PeerId(i) # PeerId(p)
        /\ p \notin joinCalls[p]
        /\ p \notin leaveCalls[p]

\* An envelope with the local id has been received, a peer is registered and
\* both callbacks have run.
C8_Witness ==
    \E p \in Procs :
        /\ selfHeard[p]
        /\ \E i \in IdSet : peers[p][i] # NoPeer
        /\ joinCalls[p] # {}
        /\ leaveCalls[p] # {}

(***************************************************************************)
(* Claims about the connection manager.                                    *)
(***************************************************************************)
Smaller(p, q) == StringLess(PeerId(p), PeerId(q))

\* C1: every dial ever started, by the join callback or by the retry loop,
\* and every TCP connection ever established, goes from the participant
\* with the lexicographically smaller peer id to the one with the greater.
C1_OnlySmallerDials ==
    /\ \A d \in dialed : Smaller(d[1], d[2])
    /\ \A t \in dialTasks : Smaller(t.p, t.q)
    /\ \A c \in 1..Len(sockets) : Smaller(sockets[c].from, sockets[c].to)

\* Both triggers have started a dial at the smaller side, and the greater
\* side has discovered the smaller one and run its join callback.
C1_Witness ==
    \E p, q \in Procs :
        /\ <<p, q, "join">> \in dialed
        /\ <<p, q, "retry">> \in dialed
        /\ peers[q][p] # NoPeer
        /\ p \in joinCalls[q]

\* C2: with participant A's id the smaller, once both are started on a
\* network that loses nothing, A's entry for B and B's entry for A are
\* eventually both connected, whether B's listener or the discovery came
\* first.
BothConnected ==
    \A p, q \in Procs :
        p # q => conns[p][q].allocs > 0 /\ conns[p][q].State = "connected"

C2_MeshForms == <>BothConnected

\* Both entries are connected after a first dial that found no listener and
\* a retry that found one.
C2_Witness ==
    /\ BothConnected
    /\ \E p, q \in Procs : {<<p, q, "join">>, <<p, q, "retry">>} \subseteq dialed

\* C6 as the code has it: after the retry loop of p has woken, an attempt
\* for q has been started exactly if the entry is failed, more than
\* min(2^retry_count, 64) whole seconds have passed since its last attempt
\* and p's id is the smaller; and the delay is at most 64 s for every
\* retry_count.
RetryStarted(p, q) ==
    \E t \in dialTasks : t.p = p /\ t.q = q /\ t.via = "retry"

C6_RetryGate ==
    /\ \A p \in woken : \A q \in Procs :
          RetryStarted(p, q) <=>
              /\ conns[p][q].allocs > 0
              /\ conns[p][q].State = "failed"
              /\ conns[p][q].since > Min(Pow2(conns[p][q].RetryCount), 64)
              /\ Smaller(p, q)
    /\ \A rc \in 0..MaxRetryInput : BackoffDelay(rc) <= 64

\* The retry loop has started an attempt for an entry whose retry_count is
\* past the cap of the delay.
C6_Witness ==
    \E p \in woken : \E q \in Procs :
        /\ RetryStarted(p, q)
        /\ conns[p][q].RetryCount > MaxBackoffShift
        /\ conns[p][q].since = SinceCap

\* C6 as stated: an attempt is started as soon as min(2^retry_count, 64)
\* seconds have passed, the boundary included.
C6_AsStated ==
    \A p \in woken : \A q \in Procs :
        RetryStarted(p, q) <=>
            /\ conns[p][q].allocs > 0
            /\ conns[p][q].State = "failed"
            /\ conns[p][q].since >= Min(Pow2(conns[p][q].RetryCount), 64)
            /\ Smaller(p, q)

\* C3: between two participants there is at most one open socket at each
\* side, one read task and one write task per entry, and at most one dial
\* in progress per entry.
OpenHandles(p, q) ==
    {c \in 1..Len(sockets) :
        \/ sockets[c].from = p /\ sockets[c].to = q /\ sockets[c].fromOpen
        \/ /\ sockets[c].from = q /\ sockets[c].to = p /\ sockets[c].toOpen
           /\ sockets[c].stage = "registered"}

C3_OneConnectionPerPair ==
    \A p, q \in Procs :
        /\ Cardinality(OpenHandles(p, q)) <= 1
        /\ Cardinality({r \in readers : r.p = p /\ r.q = q}) <= 1
        /\ Cardinality({w \in writers : w.p = p /\ w.q = q}) <= 1
        /\ Cardinality({t \in dialTasks :
                           t.p = p /\ t.q = q /\ t.pc \in {"dial", "flush"}}) <= 1

\* C4: no key of a connection table ever holds a second PeerConnection: an
\* inbound handshake or a reconnect for a known peer id updates the entry
\* that is there.
C4_OneEntryPerPeer ==
    \A p, q \in Procs : conns[p][q].allocs <= 1

\* Two handshakes of the same dialer were registered at the acceptor, the
\* second one reached through a reconnect on the dialer's entry.
C4_Witness ==
    \E a, b \in 1..Len(sockets) :
        /\ a < b
        /\ sockets[a].from = sockets[b].from
        /\ sockets[a].to = sockets[b].to
        /\ sockets[a].stage = "registered"
        /\ sockets[b].stage = "registered"
        /\ conns[sockets[a].to][sockets[a].from].allocs = 1
        /\ conns[sockets[a].from][sockets[a].to].allocs = 1
        /\ <<sockets[a].from, sockets[a].to, "retry">> \in dialed

\* C5: an entry that was connected and failed on an I/O error (its reader
\* ran disconnectPeer), and whose later dial and identification write
\* succeeded on socket c, is connected with retry_count 0 and has its read
\* and write tasks running on c for as long as c has no I/O error.
C5_ReconnectStaysConnected ==
    \A c \in 1..Len(sockets) :
        LET p == sockets[c].from
            q == sockets[c].to
        IN (/\ sockets[c].ident
            /\ ~sockets[c].fault
            /\ sockets[c].toOpen
            /\ \E b \in 1..(c - 1) :
                   /\ sockets[b].from = p /\ sockets[b].to = q
                   /\ sockets[b].ident /\ ~sockets[b].fromOpen
            /\ \A b \in (c + 1)..Len(sockets) : sockets[b].from # p)
           => /\ conns[p][q].State = "connected"
              /\ conns[p][q].RetryCount = 0
              /\ conns[p][q].Conn = c
              /\ \E r \in readers : r.p = p /\ r.q = q /\ r.sock = c
              /\ \E w \in writers : w.p = p /\ w.q = q /\ w.sock = c

\* C7: an entry in state connected on which no dial is in progress has
\* retry_count 0.
C7_ConnectedHasZeroCount ==
    \A p, q \in Procs :
        (/\ conns[p][q].allocs > 0
         /\ conns[p][q].State = "connected"
         /\ ~\E t \in dialTasks : t.p = p /\ t.q = q)
        => conns[p][q].RetryCount = 0

(***************************************************************************)
(* Claims about the message history, continued.                           *)
(***************************************************************************)
IsTimeOrdered(s) == \A i, j \in 1..Len(s) : i < j => s[i].ts <= s[j].ts

\* C11: after every add, in whatever order the envelopes arrived, the history
\* slice and every snapshot taken from it (GetMessages with or without a type
\* filter, GetRecentMessages with any limit) is in non-decreasing timestamp
\* order.
C11_HistorySorted ==
    /\ IsTimeOrdered(messages)
    /\ \A types \in SUBSET MsgTypes : IsTimeOrdered(GetMessages(types))
    /\ \A limit \in (0 - 1)..(Len(messages) + 1) :
           IsTimeOrdered(GetRecentMessages(limit))

\* An accepted envelope that arrived after an envelope with a later timestamp
\* and now sits before it.
C11_Witness ==
    /\ lastAdd.op = "add"
    /\ lastAdd.ret
    /\ \E i, j \in 1..Len(messages) :
           /\ i < j
           /\ messages[i] = lastAdd.msg
           /\ messages[j].ts > lastAdd.msg.ts
    /\ Len(GetRecentMessages(1)) < Len(messages)

\* Two consecutive AddMessage calls with envelopes of equal id, the first of
\* which was accepted: the second is refused, changes neither the slice nor
\* the id set, and the slice holds exactly one envelope of that id.
C12_SecondAdd ==
    (/\ lastAdd.op = "add"
     /\ lastAdd.ret
     /\ lastAdd'.op = "add"
     /\ lastAdd'.msg.id = lastAdd.msg.id)
    => /\ ~lastAdd'.ret
       /\ messages' = messages
       /\ messageIDs' = messageIDs
       /\ Cardinality({i \in 1..Len(messages') :
                          messages'[i].id = lastAdd.msg.id}) = 1

\* C12: calling AddMessage twice with envelopes of equal id stores exactly
\* one entry; the second call returns false and leaves the slice and the id
\* set unchanged.
C12_DuplicateSuppressed == [][C12_SecondAdd]_vars

\* C14: AddMessage returns true only if the envelope is in the history when
\* the call returns, also when the history is at capacity and the envelope is
\* older than every stored one (the half of "true if and only if present"
\* that does not depend on how a refused duplicate is counted).
C14_TrueMeansStored ==
    (lastAdd.op = "add" /\ lastAdd.ret)
    => /\ lastAdd.msg \in Range(messages)
       /\ lastAdd.msg.id \in messageIDs

(***************************************************************************)
(* Claims about the chat service (SpecInbound, SpecChat).                  *)
(***************************************************************************)
\* C13: no heartbeat envelope is ever in the history and none is ever on
\* the inbound stream, whether a peer sent it (the message handler) or the
\* service built it (SendHeartbeat).
C13_NoHeartbeatStored ==
    /\ \A i \in 1..Len(messages) : messages[i].type # "heartbeat"
    /\ \A i \in 1..Len(incomingMessages) : incomingMessages[i].type # "heartbeat"

\* A heartbeat has just arrived from a peer, the service has built one of
\* its own and queued it for a peer, and the stream and the history hold
\* chat envelopes.
C13_Witness ==
    /\ lastCall.op = "OnMessage"
    /\ lastCall.msg.type = "heartbeat"
    /\ \E p \in ChatPeers : \E i \in 1..Len(connections[p].SendChan) :
           /\ connections[p].SendChan[i].type = "heartbeat"
           /\ connections[p].SendChan[i].sequence > SendChanCap - 1
    /\ incomingMessages # <<>>
    /\ messages # <<>>

\* A step in which cm.SendToPeer was called for lastCall'.peer.
SendToPeerCalled ==
    /\ lastCall'.op = "SendToPeer"
    /\ messageSequence' = messageSequence + 1

\* What C15 says of one SendToPeer call: NotConnected and no change when
\* there is no entry or its State is not connected; QueueFull and no change
\* when the entry's queue holds SendChanCap envelopes; otherwise the envelope
\* is appended to that peer's queue, no other entry changes, and the result
\* is success.  The call is possible in every state (it waits for nothing).
C15_Step ==
    /\ \A q \in ChatPeers : MayBuild => ENABLED SendJoinTo(q)
    /\ SendToPeerCalled =>
          LET q == lastCall'.peer
              e == connections[q]
          IN /\ e.State # "connected"
                => lastCall'.err = "NotConnected" /\ connections' = connections
             /\ (e.State = "connected" /\ Len(e.SendChan) >= SendChanCap)
                => lastCall'.err = "QueueFull" /\ connections' = connections
             /\ (e.State = "connected" /\ Len(e.SendChan) < SendChanCap)
                => /\ lastCall'.err = "nil"
                   /\ connections' =
                        [connections EXCEPT ![q].SendChan = Append(@, lastCall'.msg)]

\* C15: SendToPeer never blocks and answers NotConnected, QueueFull or
\* success as C15_Step describes.
C15_SendToPeer == [][C15_Step]_vars

\* SendToPeer has just answered QueueFull for a connected peer whose queue
\* holds SendChanCap envelopes, while the other peer has no usable entry.
C15_Witness ==
    /\ lastCall.op = "SendToPeer"
    /\ lastCall.err = "QueueFull"
    /\ connections[lastCall.peer].State = "connected"
    /\ Len(connections[lastCall.peer].SendChan) = SendChanCap
    /\ \E q \in ChatPeers : connections[q].State # "connected"

\* A step in which Broadcast was called with lastCall'.msg.
BroadcastCalled ==
    /\ lastCall'.op \in {"SendMessage", "ChangeUsername", "Notify"}
    /\ lastCall'.err = "nil"
    /\ messageSequence' = messageSequence + 1

\* What C16 says of one Broadcast call: every entry that is connected and
\* has free queue space gets the envelope appended once; every other entry
\* (not connected, or connected with a full queue) is left as it was, and a
\* full queue does not keep the envelope from any other peer.
C16_Step ==
    BroadcastCalled =>
        \A q \in ChatPeers :
            connections'[q] =
                IF /\ connections[q].State = "connected"
                   /\ Len(connections[q].SendChan) < SendChanCap
                THEN [connections[q] EXCEPT !.SendChan = Append(@, lastCall'.msg)]
                ELSE connections[q]

\* C16: Broadcast enqueues once on every connected entry with free queue
\* space, nothing elsewhere, and skips only the peer whose queue is full.
C16_Broadcast == [][C16_Step]_vars

\* A broadcast has just skipped a connected peer whose queue is full and
\* reached another connected peer.
C16_Witness ==
    /\ lastCall.op \in {"SendMessage", "ChangeUsername", "Notify"}
    /\ lastCall.err = "nil"
    /\ \E q, r \in ChatPeers :
           /\ q < r
           /\ connections[q].State = "connected"
           /\ Len(connections[q].SendChan) = SendChanCap
           /\ connections[q].SendChan[SendChanCap] # lastCall.msg
           /\ connections[r].State = "connected"
           /\ connections[r].SendChan # <<>>
           /\ connections[r].SendChan[Len(connections[r].SendChan)] = lastCall.msg

\* A step in which SendMessage was called with empty text.
EmptySendCalled ==
    /\ lastCall' # lastCall
    /\ lastCall'.op = "SendMessage"
    /\ lastCall'.arg = <<>>

\* C19: SendMessage with empty text returns the empty-message error and has
\* no effect: no queue, the history, the inbound stream and the sequence
\* counter are all unchanged.
C19_EmptySend ==
    [][EmptySendCalled =>
          /\ lastCall'.err = "EmptyMessage"
          /\ UNCHANGED <<connections, messages, messageIDs, incomingMessages,
                         messageSequence, handshakes, shutdown>>]_vars

\* An empty text has just been refused by a service that has sent chat text
\* before and has a connected peer with free queue space.
C19_Witness ==
    /\ lastCall.op = "SendMessage"
    /\ lastCall.arg = <<>>
    /\ lastCall.err = "EmptyMessage"
    /\ messages # <<>>
    /\ incomingMessages # <<>>
    /\ \E q \in ChatPeers :
           /\ connections[q].State = "connected"
           /\ Len(connections[q].SendChan) < SendChanCap

HasWhitespace(name) == \E i \in 1..Len(name) : name[i] \in {" ", "\t", "\n"}

\* A step in which ChangeUsername was called with a name that is empty,
\* longer than MaxUsernameLen or contains whitespace.
BadNameCalled ==
    /\ lastCall' # lastCall
    /\ lastCall'.op = "ChangeUsername"
    /\ \/ lastCall'.arg = <<>>
       \/ Len(lastCall'.arg) > MaxUsernameLen
       \/ HasWhitespace(lastCall'.arg)

\* C20: ChangeUsername rejects every name that is empty, longer than 20
\* characters or contains whitespace, and on rejection changes neither the
\* username nor any queue nor the history.
C20_RejectsBadNames ==
    [][BadNameCalled =>
          /\ lastCall'.err # "nil"
          /\ UNCHANGED <<username, connections, messages, messageIDs, handshakes, shutdown>>]_vars

(***************************************************************************)
(* Claims about the registry lock and the callbacks.                       *)
(***************************************************************************)
\* C17: while a dial to one peer is pending, the discovery receive task of
\* the dialling participant is not held inside the join callback (which runs
\* under the registry lock), so that it can take the next announce.
C17_FailIsolation ==
    \A t \in dialTasks :
        t.pc = "dial"
        => /\ ReceiveIdle(t.p)
           /\ \A q \in Procs \ {t.p} : ENABLED Discover(t.p, q)

\* C18: a registry call made from inside a join or leave handler completes:
\* the task making it never waits for pr.mu while holding pr.mu itself (the
\* mutex gives its holder no second hold, so such a wait never ends).
C18_ReentryCompletes ==
    \A t \in RegTasks :
        (/\ Len(calls[t]) > 1
         /\ calls[t][Len(calls[t])].at = "lock")
        => mu.writer # t /\ t \notin mu.readers

(***************************************************************************)
(* Claims about single registry steps (SpecRegistryStep).                  *)
(***************************************************************************)
\* C21: a received discovery envelope whose timestamp is more than 30 s old
\* is dropped whatever its type: the step leaves every registry record as it
\* was (none inserted, refreshed or removed) and invokes neither the join nor
\* the leave callback.
C21_Step ==
    (lastReg'.op = "receive" /\ lastReg'.env.age > MaxEnvelopeAge) =>
        /\ peers' = peers
        /\ lastReg'.joined = {} /\ lastReg'.left = {}
        /\ joinCalls' = joinCalls /\ leaveCalls' = leaveCalls

C21_OldEnvelopeDropped == [][C21_Step]_vars

\* An envelope 31 s old was received from a peer other than the owner: a
\* leave for a registered peer, or an announce for an unknown one.
C21_Witness ==
    /\ lastReg.op = "receive"
    /\ lastReg.env.age > MaxEnvelopeAge
    /\ PeerId(lastReg.env.peer) # PeerId(RegistryOwner)
    /\ \/ lastReg.env.type = "leave" /\ peers[RegistryOwner][lastReg.env.peer] # NoPeer
       \/ lastReg.env.type = "announce" /\ peers[RegistryOwner][lastReg.env.peer] = NoPeer

\* The envelope of the last step reached AddOrUpdatePeer: it was recent, came
\* from another peer and was an announce, a ping or a pong.
Upserted(step) ==
    /\ step.op = "receive"
    /\ step.env.type \in {"announce", "ping", "pong"}
    /\ step.env.age <= MaxEnvelopeAge
    /\ PeerId(step.env.peer) # PeerId(RegistryOwner)

\* C27: an upsert for a peer id that is not in the registry inserts a record
\* with status online, last_seen now and address (sender ip, envelope port),
\* and invokes on_join once, for that peer; an upsert for a peer id that is
\* present only sets that record's last_seen to now and its status to
\* online (its address stays), changes no other record and invokes no
\* callback.
C27_Step ==
    Upserted(lastReg') =>
        LET id == lastReg'.env.peer
            old == peers[RegistryOwner]
            new == peers'[RegistryOwner]
        IN IF old[id] = NoPeer
           THEN /\ new[id] = [status |-> "online", seen |-> 0,
                              ip |-> lastReg'.env.ip, port |-> lastReg'.env.port]
                /\ lastReg'.joined = {id}
                /\ joinCalls'[RegistryOwner] = joinCalls[RegistryOwner] \cup {id}
           ELSE /\ new[id] = [old[id] EXCEPT !.seen = 0, !.status = "online"]
                /\ \A j \in IdSet \ {id} : new[j] = old[j]
                /\ lastReg'.joined = {} /\ lastReg'.left = {}
                /\ joinCalls' = joinCalls /\ leaveCalls' = leaveCalls

C27_Upsert == [][C27_Step]_vars

\* A ping refreshed a record that had gone stale, beside another record; the
\* ping came from another address than the one the record was inserted with.
C27_Witness ==
    /\ Upserted(lastReg)
    /\ lastReg.joined = {}
    /\ LET rec == peers[RegistryOwner][lastReg.env.peer]
       IN /\ rec.status = "online" /\ rec.seen = 0
          /\ <<rec.ip, rec.port>> # <<lastReg.env.ip, lastReg.env.port>>
    /\ \E j \in IdSet \ {lastReg.env.peer} : peers[RegistryOwner][j].status = "stale"

\* C28: a sweep sets the status of every record from now - last_seen: online
\* up to 10 s, stale above 10 s and up to 30 s, offline above 30 s.  Each
\* record that becomes offline is removed in that sweep and on_leave is
\* invoked for it, once; every other record stays with its last_seen and
\* address, and no other callback runs.  No snapshot (all peers, online
\* peers) ever holds a record whose status is offline.
C28_Step ==
    lastReg'.op = "sweep" =>
        LET old == peers[RegistryOwner]
            new == peers'[RegistryOwner]
        IN /\ \A i \in IdSet :
                IF old[i] = NoPeer THEN new[i] = NoPeer /\ i \notin lastReg'.left
                ELSE IF old[i].seen > OfflineAfter
                THEN new[i] = NoPeer /\ i \in lastReg'.left
                ELSE /\ i \notin lastReg'.left
                     /\ new[i] = [old[i] EXCEPT !.status =
                                    IF old[i].seen > StaleAfter THEN "stale"
                                    ELSE "online"]
           /\ lastReg'.joined = {}
           /\ leaveCalls'[RegistryOwner] = leaveCalls[RegistryOwner] \cup lastReg'.left
           /\ joinCalls' = joinCalls

C28_NoOfflineSnapshot ==
    \A p \in Procs :
        \A s \in GetAllPeers(peers[p]) \cup GetOnlinePeers(peers[p]) :
            s[2].status # "offline"

C28_Sweep == []C28_NoOfflineSnapshot /\ [][C28_Step]_vars

\* A sweep removed a record that was silent for 31 s, with its leave
\* callback, and kept a record that is stale.
C28_Witness ==
    /\ lastReg.op = "sweep"
    /\ \E i \in lastReg.left : peers[RegistryOwner][i] = NoPeer
    /\ \E s \in GetOnlinePeers(peers[RegistryOwner]) :
          s[2].status = "stale" /\ s[2].seen = OfflineAfter

(***************************************************************************)
(* Claims about the sequence counter (SpecSequence).                       *)
(***************************************************************************)
\* Every envelope the service has built that is still in a task's hands, a
\* send queue, the history or the inbound stream.
BuiltEnvelopes ==
    {building[t] : t \in SeqTasks} \cup Range(messages) \cup Range(incomingMessages)
    \cup UNION {Range(connections[p].SendChan) : p \in ChatPeers}
    \cup {lastCall.msg}

\* C24: every envelope the chat service builds (chat text, join, leave,
\* heartbeat, username notice) carries a sequence number greater than every
\* number it assigned before, and calls that overlap never get the same
\* number.
C24_Step ==
    \A t \in SeqTasks :
        (building[t] = NilMsg /\ building'[t] # NilMsg) =>
            /\ building'[t].sequence > messageSequence
            /\ \A m \in BuiltEnvelopes \ {NilMsg} : building'[t].sequence > m.sequence

C24_Sequence == [][C24_Step]_vars

\* Two calls overlap: the front-end holds a chat envelope it has not yet
\* broadcast while the join callback holds a join envelope.
C24_Witness ==
    /\ building["front"] # NilMsg /\ building["front"].type = "chat"
    /\ building["receive"] # NilMsg
    /\ building["front"].sequence # building["receive"].sequence

(***************************************************************************)
(* Claims about the read task (SpecReader).                                *)
(***************************************************************************)
\* The read task of peer p takes the oldest unread line in this step.
ReadStep(p) ==
    /\ link[p].wire # <<>>
    /\ link'[p].wire = Tail(link[p].wire)

\* A required key of the line is missing or holds the empty string.
LacksField(line) == \E f \in Fields : f \notin line.keys \/ line[f] = <<>>

\* C25: parsing a received line fails, and the envelope is dropped (nothing
\* stored, nothing published, nothing given to the handler), whenever id,
\* sender_id or type is missing or empty; parsing succeeds for every
\* well-formed envelope in which all three are non-empty, and the handler
\* gets that envelope.
C25_Step ==
    \A p \in ChatPeers :
        ReadStep(p) =>
            LET line == Head(link[p].wire)
            IN IF LacksField(line)
               THEN /\ lastCall'.err # "nil"
                    /\ link'[p].handed = link[p].handed
                    /\ UNCHANGED <<messages, messageIDs, incomingMessages, handshakes, shutdown>>
               ELSE line.json =>
                    /\ lastCall'.err = "nil"
                    /\ link'[p].handed =
                          Append(link[p].handed,
                                 [id |-> line.id[1], ts |-> line.ts,
                                  type |-> line.type[1], sequence |-> line.sequence])

C25_IngestValidation == [][C25_Step]_vars

\* A sound envelope was parsed and given to the handler, and the next line,
\* whose type is the empty string, was refused.
C25_Witness ==
    /\ lastCall.op = "ReadLine"
    /\ lastCall.arg.json /\ lastCall.arg.type = <<>>
    /\ lastCall.err # "nil"
    /\ Len(link[LinkPeer].handed) = 1

\* C29: in the read task of a peer, a line that fails to parse or validate
\* is dropped: no entry changes, the socket stays open and the task keeps
\* reading.  When the task ends (the read returned EOF, a deadline or a
\* reset), its entry is failed and its socket closed, and the entry, socket
\* and tasks of every other peer are as before.
C29_Step ==
    \A p \in ChatPeers :
        /\ (ReadStep(p) /\ (LacksField(Head(link[p].wire)) \/ ~Head(link[p].wire).json)) =>
               /\ connections' = connections
               /\ link'[p].reader = "run"
               /\ link'[p].sock = "up"
               /\ link'[p].handed = link[p].handed
        /\ (link[p].reader = "run" /\ link'[p].reader = "done") =>
               /\ connections[p].cancelled \/ ReadFails(link[p])
               /\ connections'[p].State = "failed"
               /\ link'[p].sock = "closed"
               /\ \A q \in ChatPeers \ {p} :
                     connections'[q] = connections[q] /\ link'[q] = link[q]

C29_ReadTask == [][C29_Step]_vars

\* The read task of a peer dropped a line, read on, and ended on a read
\* error, while the other peer's entry is connected with its task reading.
C29_Witness ==
    /\ lastCall.op = "disconnectPeer" /\ lastCall.peer = LinkPeer
    /\ link[LinkPeer].reader = "done"
    /\ link[LinkPeer].peerSent = MaxLines
    /\ link[LinkPeer].wire = <<>>
    /\ Len(link[LinkPeer].handed) = 1
    /\ \E q \in ChatPeers \ {LinkPeer} :
          connections[q].State = "connected" /\ link[q].reader = "run"

(***************************************************************************)
(* Claims about the write task (SpecWriter).                               *)
(***************************************************************************)
\* C30: when a write or flush to the peer's socket fails, the write task
\* sets the entry failed before it returns: no entry whose write task has
\* ended is in state connected.
C30_WriteTaskFails ==
    \A p \in ChatPeers :
        link[p].writer = "done" => connections[p].State # "connected"

(***************************************************************************)
(* Claims about connections that stay up (SpecFifo, FairFifo).             *)
(***************************************************************************)
\* The sequence numbers of s increase from one envelope to the next.
InSendOrder(s) == \A i \in 1..(Len(s) - 1) : s[i].sequence < s[i + 1].sequence

\* The envelopes of the unread lines that parsing accepts, in line order.
SoundUnread(p) ==
    LET RECURSIVE Parsed(_)
        Parsed(w) ==
            IF w = <<>> THEN <<>>
            ELSE IF LacksField(Head(w)) \/ ~Head(w).json THEN Parsed(Tail(w))
            ELSE <<[id |-> Head(w).id[1], ts |-> Head(w).ts,
                    type |-> Head(w).type[1], sequence |-> Head(w).sequence]>>
                 \o Parsed(Tail(w))
    IN Parsed(link[p].wire)

\* C26: while a peer's connection is up, the envelopes enqueued for the peer
\* are written to it in enqueue order, each once: what was written followed
\* by what is still queued is the list of the envelopes enqueued, in the
\* order of their enqueueing.  On the receiving side the envelopes given to
\* the message handler, followed by those still unread, are in the order in
\* which the peer wrote them, each at most once.
C26_Fifo ==
    \A p \in ChatPeers :
        /\ LET out == written[p] \o connections[p].SendChan
           IN /\ Len(out) = messageSequence - (SendChanCap - 1)
              /\ \A i \in 1..Len(out) : out[i].sequence = SendChanCap - 1 + i
        /\ InSendOrder(link[p].handed \o SoundUnread(p))
        /\ \A i \in 1..Len(link[p].handed) :
              link[p].handed[i].sequence <= link[p].peerSent

\* Two envelopes were written to a peer and two envelopes of a peer were
\* given to the handler.
C26_Witness ==
    /\ \E p \in ChatPeers : Len(written[p]) >= 2
    /\ Len(link[LinkPeer].handed) >= 2

\* The chat envelopes the service may build here, and those of the peer.
LocalChat ==
    {NewMessage("chat", Now, n) : n \in SendChanCap..(SendChanCap - 1 + MaxBuilt)}

PeerChat == {PeerEnvelope(LinkPeer, k, "chat") : k \in 1..MaxLines}

\* The inbound stream holds m once, and the history one entry with m's id.
OnceEach(m) ==
    /\ Cardinality({i \in 1..Len(incomingMessages) : incomingMessages[i] = m}) = 1
    /\ Cardinality({i \in 1..Len(messages) : messages[i].id = m.id}) = 1
    /\ m.id \in messageIDs

\* The owner has received the leave envelope of the leaving peer.
LeaveReceived == lastReg.op = "receive" /\ lastReg.env = Leave(LinkPeer)

\* C22: after participant B has called stop and A has received its leave
\* envelope, A's registry does not contain B and stays without B; and once
\* B's socket is closed, A's connection entry for B eventually leaves state
\* connected and is failed.
C22_PeerLeave ==
    /\ [](LeaveReceived => [](peers[RegistryOwner][LinkPeer] = NoPeer))
    /\ (leaver.pc # "running") ~> (connections[LinkPeer].State = "failed")

\* C38: once the discovery service has sent its leave envelope during stop
\* it sends no further announce envelope, and a peer that has processed the
\* leave does not insert the stopped participant again.
C38_Step ==
    leaver.pc \in {"left", "stopped"} =>
        /\ Len(leaver'.air) <= Len(leaver.air)
        /\ peers[RegistryOwner][LinkPeer] = NoPeer
               => peers'[RegistryOwner][LinkPeer] = NoPeer

C38_LeaveIsLast == [][C38_Step]_vars

\* C35: when two stored envelopes have equal timestamps, the one added
\* first stays before the one added later after every subsequent add, and an
\* envelope that is added comes after the stored envelopes of its timestamp.
C35_Step ==
    /\ \A i, j \in 1..Len(messages) :
          (i < j /\ messages[i].ts = messages[j].ts) =>
              \A k, l \in 1..Len(messages') :
                  (messages'[k] = messages[i] /\ messages'[l] = messages[j]) => k < l
    /\ (lastAdd'.op = "add" /\ lastAdd'.ret) =>
          \A i \in 1..Len(messages) : \A k, l \in 1..Len(messages') :
              (/\ messages[i].ts = lastAdd'.msg.ts
               /\ messages'[k] = messages[i]
               /\ messages'[l] = lastAdd'.msg) => k < l

C35_StableOrder == [][C35_Step]_vars

\* C36: for every peer id, on_join and on_leave are invoked alternately,
\* starting with on_join: a call of upsert, sweep or remove invokes on_join
\* for exactly the ids it puts into the registry and on_leave for exactly
\* the ids it takes out of it, so on_leave is never invoked for a peer that
\* is not in the registry and on_join never for one that is; every id in
\* the registry has had its on_join.
C36_Step ==
    \A id \in IdSet :
        LET before == peers[RegistryOwner][id] # NoPeer
            after == peers'[RegistryOwner][id] # NoPeer
        IN /\ id \in lastReg'.joined <=> (~before /\ after)
           /\ id \in lastReg'.left <=> (before /\ ~after)

C36_Joined ==
    /\ \A id \in IdSet :
          peers[RegistryOwner][id] # NoPeer => id \in joinCalls[RegistryOwner]
    /\ leaveCalls[RegistryOwner] \subseteq joinCalls[RegistryOwner]

C36_CallbacksAlternate == []C36_Joined /\ [][C36_Step]_vars

\* A leave envelope for a registered peer took it out with one on_leave,
\* while another peer stayed registered without any callback.
C36_Witness ==
    /\ lastReg.op = "receive" /\ lastReg.env.type = "leave"
    /\ lastReg.left = {lastReg.env.peer} /\ lastReg.joined = {}
    /\ peers[RegistryOwner][lastReg.env.peer] = NoPeer
    /\ \E j \in IdSet : peers[RegistryOwner][j] # NoPeer

\* C34: an envelope received from a peer is published on the inbound
\* stream if and only if history.add stored it (it is no duplicate and no
\* heartbeat) and the 100-slot stream has room; when the stream is full the
\* envelope is dropped from the stream, the read task goes on, and the
\* envelope remains in the history.
C34_Step ==
    lastCall'.op = "OnMessage" =>
        LET m == lastCall'.msg
            stored == m.id \notin messageIDs /\ m.type # "heartbeat"
        IN /\ lastAdd'.ret = stored
           /\ incomingMessages' =
                 IF stored /\ Len(incomingMessages) < InboundCap
                 THEN Append(incomingMessages, m)
                 ELSE incomingMessages
           /\ stored => m \in Range(messages') /\ m.id \in messageIDs'

C40_AtMostOnce ==
    \A i, j \in 1..Len(Delivered) : Delivered[i].id = Delivered[j].id => i = j

\* C31: an accepted socket whose first line is not a parseable
\* identification envelope, or whose envelope lacks a sender_id, is closed
\* and creates or modifies no connection entry; a connection entry is only
\* ever keyed by a non-empty peer id.
C31_Step ==
    \A a \in 1..MaxAccepts :
        (handshakes[a].stage = "reading" /\ handshakes'[a].stage # "reading") =>
            LET line == lastCall'.arg
            IN /\ handshakes'[a].stage = "registered" => handshakes'[a].key # <<>>
               /\ (/\ lastCall'.err # "read"
                   /\ ~line.json \/ "sender_id" \notin line.keys \/ line.sender_id = <<>>)
                  => /\ handshakes'[a].stage = "closed"
                     /\ connections' = connections
                     /\ link' = link

C31_HandshakeValidation == [][C31_Step]_vars

\* C37: the write task sets the write deadline and writes only while the
\* entry's socket handle is non-null; it never calls into a null handle.
C37_Step ==
    (lastCall' # lastCall /\ lastCall'.op = "SetWriteDeadline") =>
        lastCall'.err # "nil pointer"

C37_NoNullSocket == [][C37_Step]_vars

\* C39: a SendMessage that races with Stop never attempts to publish on the
\* inbound stream once Stop has closed it.
C39_Step ==
    (lastCall' # lastCall /\ lastCall'.op = "SendMessage" /\ lastCall'.err # "EmptyMessage")
        => shutdown.pc # "closed"

C39_NoSendOnClosed == [][C39_Step]_vars

\* The statements of ChatService.Stop in the order of the text.
StopRank(pc) ==
    CASE pc = "running" -> 0
      [] pc = "notified" -> 1
      [] pc = "cmCancelled" -> 2
      [] pc = "cmClosed" -> 3
      [] pc = "cmStopped" -> 4
      [] pc = "discStopped" -> 5
      [] OTHER -> 6

\* C33: Stop broadcasts the leave, then stops the connection manager, then
\* stops discovery, then closes the inbound stream; when the connection
\* manager's stop returns, every task it counted has returned (a task
\* started after that returns without reading); once the stream is closed
\* no read task hands an envelope on or publishes on it.
C33_Step ==
    /\ shutdown'.pc # shutdown.pc => StopRank(shutdown'.pc) = StopRank(shutdown.pc) + 1
    /\ (shutdown.pc = "cmClosed" /\ shutdown'.pc = "cmStopped") =>
          /\ \A p \in ChatPeers : link[p].reader = "done" /\ link[p].writer = "done"
          /\ \A a \in 1..MaxAccepts : handshakes[a].stage # "reading"
    /\ StopRank(shutdown.pc) >= 4 =>
          /\ incomingMessages' = incomingMessages
          /\ messages' = messages
          /\ \A p \in ChatPeers : link'[p].reader # "run"

C33_ShutdownOrder == [][C33_Step]_vars

\* The stream is closed after a peer's envelope was published, and a task
\* started after the connection manager stopped is at the top of its loop.
C33_Witness ==
    /\ shutdown.pc = "closed"
    /\ incomingMessages # <<>>
    /\ \E p \in ChatPeers : link[p].reader = "top"

\* C33 as stated: once the connection manager's stop has returned, every
\* per-peer task has exited.
C33_AllTasksExited ==
    StopRank(shutdown.pc) >= 4 =>
        \A p \in ChatPeers : link[p].reader = "done" /\ link[p].writer = "done"

\* C32: the connection manager's Stop returns in every run, also when an
\* accepted socket has not sent its identification line or a peer's socket
\* is silent.  Here for the runs in which sockets are not dialled for ever:
\* either tasks keep being started, or a Stop that has cancelled the
\* manager's context gets past its wait.
C32_StopTerminates ==
    \/ []<>(\E p \in ChatPeers : link[p].reader = "top")
    \/ (shutdown.pc = "cmCancelled") ~> (StopRank(shutdown.pc) >= 4)

\* Nothing is under way: every chat envelope the service has sent is written
\* to every peer, and no chat line of the peer is unread.
Settled ==
    /\ \A m \in LocalChat : \A p \in ChatPeers :
          m.id \in messageIDs => m \in Range(written[p])
    /\ \A m \in PeerChat : ToJSON(m, LinkPeer) \notin Range(link[LinkPeer].wire)

\* What holds of the envelopes at every moment: a chat envelope the service
\* has sent is on its own inbound stream and in its history, once each; what
\* it wrote to a peer is a line that parses back to the same envelope; a
\* chat envelope read from the peer is on the stream and in the history,
\* once each.
ReceivedOnce ==
    /\ \A m \in LocalChat :
          m \in UNION {Range(written[p] \o connections[p].SendChan) : p \in ChatPeers}
          => /\ OnceEach(m)
             /\ FromJSON(ToJSON(m, RegistryOwner)) = [err |-> "nil", msg |-> m]
    /\ \A m \in PeerChat :
          \/ ToJSON(m, LinkPeer) \in Range(link[LinkPeer].wire)
          \/ m \in Range(link[LinkPeer].handed) <=> OnceEach(m)

=============================================================================
